---- MODULE Spec2Model ----
(***************************************************************************)
(* A state-machine model of the streaming core of ape-dts:                 *)
(*   - PartitionParallelizer (dt-parallelizer/src/partition_parallelizer)  *)
(*   - RedisParallelizer     (dt-parallelizer/src/redis_parallelizer)      *)
(*   - RedisReshardExtractor (dt-connector/.../redis_reshard_extractor)    *)
(*   - StarRocksSinker       (dt-connector/.../starrocks_sinker)           *)
(*   - RdkafkaSinker         (dt-connector/.../rdkafka_sinker)             *)
(*   - DdlStatement          (dt-common/.../ddl_statement)                 *)
(* Every component has its own variables, its own Init/Next and its own    *)
(* specification; a component's specification leaves the variables of the  *)
(* other components at their idle values.                                  *)
(***************************************************************************)
EXTENDS Integers, Sequences, FiniteSets, TLC

VARIABLES
  \* ---- PartitionParallelizer and the queue it drains
  buffer,          \* DtQueue: the items pushed by the extractor, not yet popped
  pushed,          \* number of items the extractor has pushed so far
  parallel_size,   \* PartitionParallelizer.parallel_size
  pp_pc,           \* position of the pipeline task: idle / draining / drained / drain_err
  pp_data,         \* drain's local `data`, and its returned batch once drained
  pp_popped,       \* history: the items popped by the current drain, in pop order
  pp_input,        \* history: all rows handed to sink_dml so far, in order
  pp_sinks         \* pp_sinks[b]: the rows delivered to sinker b so far, in order

ppVars == <<buffer, pushed, parallel_size, pp_pc, pp_data, pp_popped, pp_input, pp_sinks>>

VARIABLES
  \* ---- RedisParallelizer and its sinkers
  slot_node_map,          \* RedisParallelizer.slot_node_map: slot -> node (empty: no cluster)
  node_sinker_index_map,  \* RedisParallelizer.node_sinker_index_map: sinker id -> index
  sinker_ids,             \* sinker_ids[i]: what sinkers[i].get_id() returns
  rp_pc,                  \* position of sink_raw's caller: idle / spawned / returned / err / panic
  rp_calls,               \* number of sink_raw calls so far
  rp_batch,               \* the `data` of the current (or last) sink_raw call
  rp_err,                 \* the error the last sink_raw call returned, or "none"
  rp_node_data,           \* rp_node_data[i]: the node_data moved into the task of sinker i
  rp_tasks,               \* rp_tasks[i]: none / spawned / done / panicked
  rp_delivered,           \* history: the deliveries sinker i received in this call
  rp_key_sinks            \* history: key -> the sinkers that received an event carrying it

rpVars == <<slot_node_map, node_sinker_index_map, sinker_ids, rp_pc, rp_calls, rp_batch,
            rp_err, rp_node_data, rp_tasks, rp_delivered, rp_key_sinks>>

VARIABLES
  \* ---- RedisReshardExtractor and the cluster it reshards
  rs_nodes,       \* `nodes`: the master nodes as snapshot by reshard, each [id, slots]
  rs_owner,       \* the cluster: slot -> id of the master that owns it
  rs_pc,          \* position of reshard
  rs_plan,        \* node_move_in_slots: id of a destination -> the slots to move in
  rs_todo,        \* the destinations move_slots has not iterated over yet
  rs_dst,         \* dst_node of the current iteration (0: none)
  rs_rest,        \* the slots of the current destination not moved yet
  rs_slot,        \* the slot setslot_and_migrate is moving
  rs_src,         \* src_node of the current slot (0: none)
  rs_cur_src,     \* cur_src_node (0: None)
  rs_keys,        \* the keys of the slot not migrated yet
  rs_cmds,        \* history: the commands issued for the current slot, in order
  rs_moved,       \* history: slot -> the destination it was moved to (0: not moved)
  rs_failed,      \* history: a command or a connection has failed
  rs_after_fail   \* history: commands and connections issued after a failure

rsVars == <<rs_nodes, rs_owner, rs_pc, rs_plan, rs_todo, rs_dst, rs_rest, rs_slot, rs_src,
            rs_cur_src, rs_keys, rs_cmds, rs_moved, rs_failed, rs_after_fail>>

VARIABLES
  \* ---- StarRocksSinker
  sr_db_type,        \* StarRocksSinker.db_type: StarRocks or Doris
  sr_hard_delete,    \* StarRocksSinker.hard_delete
  sr_meta_has_sign,  \* tb_meta.basic.col_origin_type_map.contains_key(SIGN_COL_NAME)
  sync_timestamp,    \* StarRocksSinker.sync_timestamp
  sr_rows,           \* the rows send_data was last called on (skip(start_index).take(batch_size))
  sr_result,         \* how the last send_data call ended: none / ok / the error
  sr_request,        \* the last request that was built: [op, headers, load_data], or <<>>
  sr_stamps,         \* history: the last two requests built, [ts, clock_behind, sent_ok]
  sr_batch_size,     \* StarRocksSinker.batch_size
  sr_data,           \* `data` of the sink_dml call in progress
  sr_batch,          \* `batch` of the sink_dml call in progress
  sr_next,           \* index of the next row of `data` to send (1-based)
  sr_response,       \* the response to the last request: [status, body], or <<>>
  sr_sent,           \* history: the send_data calls of this sink_dml call, [rows, result]
  sr_ret             \* sink_dml: none (not called) / running / ok / err

srVars == <<sr_db_type, sr_hard_delete, sr_meta_has_sign, sync_timestamp, sr_rows,
            sr_result, sr_request, sr_stamps, sr_batch_size, sr_data, sr_batch,
            sr_next, sr_response, sr_sent, sr_ret>>

VARIABLES
  \* ---- RdkafkaSinker
  message_format,    \* RdkafkaSinker.message_format: [kind, template]
  kf_meta,           \* json_converter.meta_manager and what its lookup gives
  kf_pc,             \* position of sink_dml: idle / building / awaiting / returned
  kf_data,           \* `data` of the sink_dml call
  kf_futures,        \* `futures`: the records the delivery futures hold, in order
  kf_polled,         \* number of futures the second loop has started to await
  kf_published,      \* history: the records handed to producer.send, in order
  kf_results,        \* history: the delivery results received, in order
  kf_ret             \* result of sink_dml: none / ok / encode_err / producer_err

kfVars == <<message_format, kf_meta, kf_pc, kf_data, kf_futures, kf_polled,
            kf_published, kf_results, kf_ret>>

VARIABLES
  \* ---- DdlStatement
  dd_pc,             \* off / ready (parsed) / routed / done / panic
  dd_stmt,           \* the statement (`self`)
  dd_prev,           \* the statement before route / route_rename_table
  dd_via,            \* the routing call applied: none / route / route_rename_table
  dd_dst,            \* arguments of the routing call
  dd_op,             \* the last call: none / route / route_rename_table /
                     \* split_to_multi / to_sql
  dd_db_type,        \* `db_type` of the to_sql call
  dd_split,          \* result of split_to_multi
  dd_sql             \* result of to_sql, as the sequence of its pieces

ddVars == <<dd_pc, dd_stmt, dd_prev, dd_via, dd_dst, dd_op, dd_db_type, dd_split,
            dd_sql>>

VARIABLES
  \* ---- JsonConverter / CloudCanalConverter, called on one row
  en_pc,             \* off / ready / done
  en_row,            \* `row_data`
  en_meta,           \* the converter's meta_manager and what its lookup gives
  en_op,             \* the call made: none / json_key / cloudcanal_key /
                     \* cloudcanal_value
  en_out             \* what the call returned

enVars == <<en_pc, en_row, en_meta, en_op, en_out>>

VARIABLES
  \* ---- ConfigTokenParser::parse on one input
  tk_pc,          \* position of parse: start / loop / done / panic
  tk_chars,       \* `chars`: the characters of the config string
  tk_delimiters,  \* `delimiters`
  tk_escape_pairs,\* `escape_pairs`
  tk_start,       \* `start_index` (0-based, as in the source)
  tk_tokens,      \* `tokens`
  tk_reads        \* history: per loop iteration, [from, token, next_index] of read_token

tkVars == <<tk_pc, tk_chars, tk_delimiters, tk_escape_pairs, tk_start, tk_tokens, tk_reads>>

VARIABLES
  \* ---- load_config_string and the cache file of its Nacos source
  cs_pc,          \* off / ready
  cs_source,      \* `args.source`: Local / Nacos
  cs_cache,       \* the cache file: None, or Some of its content and its
                  \* modification time
  cs_loads,       \* number of load_config_string calls so far
  cs_result,      \* what the last call returned
  cs_last,        \* history: the inputs of the last call and what load_cache gave it
  cs_rejected     \* history: the fetched contents that filter_config_sections rejected

csVars == <<cs_pc, cs_source, cs_cache, cs_loads, cs_result, cs_last, cs_rejected>>

vars == <<ppVars, rpVars, rsVars, srVars, kfVars, ddVars, enVars, tkVars, csVars>>

\* Each component leaves the state of the others alone.
PartFrame ==
  UNCHANGED <<rpVars, rsVars, srVars, kfVars, ddVars, enVars, tkVars, csVars>>

RedisFrame ==
  UNCHANGED <<ppVars, rsVars, srVars, kfVars, ddVars, enVars, tkVars, csVars>>

ReshardFrame ==
  UNCHANGED <<ppVars, rpVars, srVars, kfVars, ddVars, enVars, tkVars, csVars>>

SrFrame ==
  UNCHANGED <<ppVars, rpVars, rsVars, kfVars, ddVars, enVars, tkVars, csVars>>

KafkaFrame ==
  UNCHANGED <<ppVars, rpVars, rsVars, srVars, ddVars, enVars, tkVars, csVars>>

DdlFrame ==
  UNCHANGED <<ppVars, rpVars, rsVars, srVars, kfVars, enVars, tkVars, csVars>>

EncFrame ==
  UNCHANGED <<ppVars, rpVars, rsVars, srVars, kfVars, ddVars, tkVars, csVars>>

TokFrame ==
  UNCHANGED <<ppVars, rpVars, rsVars, srVars, kfVars, ddVars, enVars, csVars>>

CfgFrame ==
  UNCHANGED <<ppVars, rpVars, rsVars, srVars, kfVars, ddVars, enVars, tkVars>>

-----------------------------------------------------------------------------
(* Bounds of the model *)

\* the queue holds at most MaxQueue items
MaxQueue == 2
\* the extractor pushes at most MaxPush items in a run
MaxPush == 3
\* parallel_size ranges over 1..MaxParallel
MaxParallel == 2
\* the partition hash of a row ranges over 0..MaxHash
MaxHash == 2

-----------------------------------------------------------------------------
(* Helpers on sequences *)

Min(a, b) == IF a <= b THEN a ELSE b

Max(a, b) == IF a >= b THEN a ELSE b

Range(s) == {s[i] : i \in 1..Len(s)}

Last(s) == s[Len(s)]

-----------------------------------------------------------------------------
(***************************************************************************)
(* PartitionParallelizer                                                   *)
(***************************************************************************)

\* DtData as drain sees it: Dml{row_data}, Commit, or anything else (Ddl, ...).
\* A row carries what the partitioner reads from it: `can`, the answer of
\* can_be_partitioned, and `h`, the hash of its partition key.
DtItems(id) ==
  [id : {id}, kind : {"dml"}, can : BOOLEAN, h : 0..MaxHash]
    \cup [id : {id}, kind : {"commit", "ddl"}, can : {TRUE}, h : {0}]

IsDml(item) == item.kind = "dml"

\* RdbPartitioner::can_be_partitioned(row_data) -> Result<bool>
can_be_partitioned(row) == row.can

\* RdbPartitioner's partition index of a row among n buckets (1-based here)
PartitionIndex(row, n) == (row.h % n) + 1

\* RdbPartitioner::partition(data, n): push every row, in order, on the
\* sub-list of its partition index
RECURSIVE PartitionInto(_, _, _)
PartitionInto(sub_datas, data, n) ==
  IF data = <<>> THEN sub_datas
  ELSE LET row == Head(data)
           p == PartitionIndex(row, n)
       IN PartitionInto([sub_datas EXCEPT ![p] = Append(@, row)], Tail(data), n)

partition(data, n) ==
  IF n <= 1 THEN <<data>>
  ELSE PartitionInto([i \in 1..n |-> <<>>], data, n)

\* BaseParallelizer::sink_dml(sub_datas, sinkers, parallel_size, batch):
\* sub_datas[i] is sunk by sinker i; all deliveries are awaited
BaseSinkDml(sub_datas, sinks) ==
  [i \in DOMAIN sinks |->
     IF i \in DOMAIN sub_datas THEN sinks[i] \o sub_datas[i] ELSE sinks[i]]

\* sink_dml without the partitioner: the whole batch as one sub-list
SinkDmlUnpartitioned(data, sinks, n) == BaseSinkDml(<<data>>, sinks)

\* PartitionParallelizer::sink_dml, lines 75-78
SinkDmlDispatch(data, sinks, n) == BaseSinkDml(partition(data, n), sinks)

\* the extractor pushes an item on the queue
PartPush ==
  /\ pp_pc # "off"
  /\ pushed < MaxPush
  /\ Len(buffer) < MaxQueue
  /\ \E item \in DtItems(pushed + 1) :
       buffer' = Append(buffer, item)
  /\ pushed' = pushed + 1
  /\ UNCHANGED <<parallel_size, pp_pc, pp_data, pp_popped, pp_input, pp_sinks>>

\* drain is called: `let mut data = Vec::new()`
PartDrainStart ==
  /\ pp_pc = "idle"
  /\ pp_pc' = "draining"
  /\ pp_data' = <<>>
  /\ pp_popped' = <<>>
  /\ UNCHANGED <<buffer, pushed, parallel_size, pp_input, pp_sinks>>

\* a loop body that keeps an unpartitionable row and goes on reading
DrainKeepNoBreak(item) ==
  /\ pp_data' = Append(pp_data, item)
  /\ pp_pc' = "draining"

\* lines 41-45: the row cannot be partitioned: keep it and break
DrainKeepAndBreak(item) ==
  /\ pp_data' = Append(pp_data, item)
  /\ pp_pc' = "drained"

\* lines 46-53: keep the item and go on reading
DrainKeep(item) ==
  /\ pp_data' = Append(pp_data, item)
  /\ pp_pc' = "draining"

\* one iteration of drain's loop: pop returned Ok(item)
PartDrainPop ==
  /\ pp_pc = "draining"
  /\ buffer # <<>>
  /\ LET item == Head(buffer) IN
       /\ buffer' = Tail(buffer)
       /\ pp_popped' = Append(pp_popped, item)
       /\ \/ /\ IsDml(item)
             /\ parallel_size > 1 /\ ~can_be_partitioned(item)
             /\ DrainKeepAndBreak(item)
          \/ /\ IsDml(item)
             /\ ~(parallel_size > 1 /\ ~can_be_partitioned(item))
             /\ DrainKeep(item)
          \/ /\ item.kind = "commit"
             /\ DrainKeep(item)
          \/ /\ item.kind \notin {"dml", "commit"}
             /\ pp_data' = pp_data
             /\ pp_pc' = "draining"
  /\ UNCHANGED <<pushed, parallel_size, pp_input, pp_sinks>>

\* one iteration of drain's loop on a row: can_be_partitioned returned Err,
\* which drain propagates with `?`
PartDrainPopErr ==
  /\ pp_pc = "draining"
  /\ buffer # <<>>
  /\ IsDml(Head(buffer))
  /\ parallel_size > 1
  /\ buffer' = Tail(buffer)
  /\ pp_popped' = Append(pp_popped, Head(buffer))
  /\ pp_pc' = "drain_err"
  /\ UNCHANGED <<pushed, parallel_size, pp_data, pp_input, pp_sinks>>

\* pop returned Err: the loop ends and drain returns Ok(data)
PartDrainStop ==
  /\ pp_pc = "draining"
  /\ pp_pc' = "drained"
  /\ UNCHANGED <<buffer, pushed, parallel_size, pp_data, pp_popped, pp_input, pp_sinks>>

\* the rows of a drained batch, which the pipeline hands to sink_dml
RowsOf(batch) == SelectSeq(batch, IsDml)

\* sink_dml on the rows of the drained batch
PartSinkDml ==
  /\ pp_pc = "drained"
  /\ LET data == RowsOf(pp_data) IN
       /\ pp_input' = pp_input \o data
       /\ pp_sinks' = SinkDmlDispatch(data, pp_sinks, parallel_size)
  /\ pp_pc' = "idle"
  /\ UNCHANGED <<buffer, pushed, parallel_size, pp_data, pp_popped>>

PartInit ==
  /\ buffer = <<>>
  /\ pushed = 0
  /\ parallel_size \in 1..MaxParallel
  /\ pp_pc = "idle"
  /\ pp_data = <<>>
  /\ pp_popped = <<>>
  /\ pp_input = <<>>
  /\ pp_sinks = [i \in 1..parallel_size |-> <<>>]

PartNext ==
  \/ PartPush /\ PartFrame
  \/ PartDrainStart /\ PartFrame
  \/ PartDrainPop /\ PartFrame
  \/ PartDrainPopErr /\ PartFrame
  \/ PartDrainStop /\ PartFrame
  \/ PartSinkDml /\ PartFrame

-----------------------------------------------------------------------------
(* C1: every sinker b has received exactly the subsequence of the rows handed
   to sink_dml whose partition index is b, in input order: no row is lost,
   duplicated, reordered within a bucket or sent to another bucket. *)
C1_BucketIsSubsequence ==
  \A b \in 1..parallel_size :
    pp_sinks[b] = SelectSeq(pp_input, LAMBDA row : PartitionIndex(row, parallel_size) = b)

\* sink_dml has split rows over two buckets, one of them holding two rows
C1_Witness ==
  /\ parallel_size > 1
  /\ pp_pc = "idle"
  /\ \E b, c \in 1..parallel_size :
       b # c /\ Len(pp_sinks[b]) >= 2 /\ Len(pp_sinks[c]) >= 1

(* C5: with parallel_size > 1, the batch drain returns holds at most one row
   that cannot be partitioned; that row is in the batch and is the last item
   this drain popped; and every Commit popped by this drain is in the batch. *)
C5_DrainBoundary ==
  (pp_pc = "drained" /\ parallel_size > 1) =>
    LET unpart == {i \in 1..Len(pp_popped) :
                     IsDml(pp_popped[i]) /\ ~can_be_partitioned(pp_popped[i])}
    IN /\ Cardinality({i \in 1..Len(pp_data) :
                         IsDml(pp_data[i]) /\ ~can_be_partitioned(pp_data[i])}) <= 1
       /\ \A i \in unpart :
            /\ i = Len(pp_popped)
            /\ pp_data # <<>> /\ Last(pp_data) = pp_popped[i]
       /\ \A i \in 1..Len(pp_popped) :
            pp_popped[i].kind = "commit" => pp_popped[i] \in Range(pp_data)

\* drain returned a batch that ends with an unpartitionable row, after a
\* Commit and a partitionable row
C5_Witness ==
  /\ pp_pc = "drained" /\ parallel_size > 1
  /\ Len(pp_data) = 3
  /\ IsDml(Last(pp_data)) /\ ~can_be_partitioned(Last(pp_data))
  /\ \E i \in 1..2 : pp_data[i].kind = "commit"
  /\ buffer = <<>>

-----------------------------------------------------------------------------
(***************************************************************************)
(* RedisParallelizer                                                       *)
(***************************************************************************)

\* a sink_raw call takes at most MaxBatch items
MaxBatch == 2
\* at most MaxCalls sink_raw calls in a run
MaxCalls == 2

\* the nodes of the cluster (one sinker per node), the slots and the keys
RedisNodes == {1, 2}
RedisSlots == {0, 1}
RedisKeys == {1, 2, 3}

\* the slot a key hashes to
key_slot(k) == k % Cardinality(RedisSlots)

\* the key lists a command can carry: no key, one key, two keys
RedisKeyLists ==
  {<<>>} \cup {<<k>> : k \in RedisKeys}
    \cup {kk \in RedisKeys \X RedisKeys : kk[1] < kk[2]}

\* DtData of an item: DtData::Redis{entry} with the keys of its command, an
\* entry whose keys cannot be parsed (bad), or another DtData
RedisDtData ==
  [kind : {"redis"}, keys : RedisKeyLists, bad : {FALSE}]
    \cup [kind : {"redis"}, keys : {<<>>}, bad : {TRUE}]
    \cup [kind : {"other"}, keys : {<<>>}, bad : {FALSE}]

\* a batch of n items; an item carries its position in the batch as identity
RedisBatchesOf(n) ==
  {[p \in 1..n |-> [pos |-> p, kind |-> d[p].kind, keys |-> d[p].keys, bad |-> d[p].bad]] :
     d \in [1..n -> RedisDtData]}

RedisBatches == UNION {RedisBatchesOf(n) : n \in 0..MaxBatch}

\* RedisEntry::cal_slots(key_parser) -> Result<Vec<u16>>: the slot of every key
cal_slots(entry) ==
  IF entry.bad THEN [ok |-> FALSE, slots |-> <<>>]
  ELSE [ok |-> TRUE, slots |-> [i \in 1..Len(entry.keys) |-> key_slot(entry.keys[i])]]

\* lines 69-76: some slot differs from the first
HasMixedSlots(slots) == \E i \in 2..Len(slots) : slots[i] # slots[1]

\* lines 52-58: the lazily built sinker id -> index map
BuildIndexMap(idx_map, ids) ==
  IF DOMAIN idx_map = {} THEN [id \in Range(ids) |-> CHOOSE i \in 1..Len(ids) : ids[i] = id]
  ELSE idx_map

\* a dispatcher that deals keyed items to the sinkers by their position
DstSinkerIndexByPosition(item, slots, slot_map, idx_map) ==
  (item.pos % Cardinality(DOMAIN idx_map)) + 1

\* lines 96-98: the sinker of the node that owns the first slot
DstSinkerIndex(item, slots, slot_map, idx_map) == idx_map[slot_map[slots[1]]]

\* a fan-out that reaches the first sinker only
PushItemFirstOnly(node_data_items, item, slots, slot_map, idx_map) ==
  IF slots = <<>>
  THEN [node_data_items EXCEPT ![1] = Append(@, item)]
  ELSE [node_data_items EXCEPT ![DstSinkerIndex(item, slots, slot_map, idx_map)] =
          Append(@, item)]

\* lines 87-99: an item without a slot goes to every node, another to its node
PushItem(node_data_items, item, slots, slot_map, idx_map) ==
  IF slots = <<>>
  THEN [i \in DOMAIN node_data_items |-> Append(node_data_items[i], item)]
  ELSE [node_data_items EXCEPT ![DstSinkerIndex(item, slots, slot_map, idx_map)] =
          Append(@, item)]

\* a slot check that lets mixed-slot commands through
SlotCheckNone(slots) == "none"

\* lines 69-76: bail with RedisCmdError when the keys hash to different slots
SlotCheck(slots) == IF HasMixedSlots(slots) THEN "RedisCmdError" ELSE "none"

\* lines 66-100: the loop over the batch; the result is the error that ended
\* it ("none": it ran to its end) and node_data_items
RECURSIVE Bucketize(_, _, _, _)
Bucketize(node_data_items, data, slot_map, idx_map) ==
  IF data = <<>> THEN [err |-> "none", items |-> node_data_items]
  ELSE LET dt_item == Head(data)
           res == IF dt_item.kind = "redis" THEN cal_slots(dt_item)
                  ELSE [ok |-> TRUE, slots |-> <<>>]
       IN IF ~res.ok THEN [err |-> "KeyParseError", items |-> node_data_items]
          ELSE IF SlotCheck(res.slots) # "none"
          THEN [err |-> SlotCheck(res.slots), items |-> node_data_items]
          ELSE Bucketize(PushItem(node_data_items, dt_item, res.slots, slot_map, idx_map),
                         Tail(data), slot_map, idx_map)

\* the keys carried by the items of a delivery
KeysOf(node_data) == UNION {Range(node_data[j].keys) : j \in 1..Len(node_data)}

\* history: sinker i has received node_data
NoteKeys(key_sinks, i, node_data) ==
  [k \in RedisKeys |-> IF k \in KeysOf(node_data) THEN key_sinks[k] \cup {i} ELSE key_sinks[k]]

\* BaseParallelizer::sink_raw(vec![data], sinkers, 1, false): the one sub-list
\* is sunk by the first sinker
RedisSinkRawNoCluster ==
  /\ rp_pc = "idle"
  /\ rp_calls < MaxCalls
  /\ DOMAIN slot_node_map = {}
  /\ \E data \in RedisBatches :
       /\ rp_batch' = data
       /\ rp_delivered' = [i \in DOMAIN sinker_ids |-> IF i = 1 THEN <<data>> ELSE <<>>]
       /\ rp_key_sinks' = NoteKeys(rp_key_sinks, 1, data)
  /\ rp_calls' = rp_calls + 1
  /\ rp_err' = "none"
  /\ rp_pc' = "returned"
  /\ UNCHANGED <<slot_node_map, node_sinker_index_map, sinker_ids, rp_node_data, rp_tasks>>

\* sink_raw on a cluster, up to the spawn of one task per sinker (lines 52-115)
\* or to the error that ends the loop over the batch
RedisSinkRawCluster ==
  /\ rp_pc = "idle"
  /\ rp_calls < MaxCalls
  /\ DOMAIN slot_node_map # {}
  /\ rp_calls' = rp_calls + 1
  /\ \E data \in RedisBatches :
       LET idx_map == BuildIndexMap(node_sinker_index_map, sinker_ids)
           empty == [i \in DOMAIN sinker_ids |-> <<>>]
           res == Bucketize(empty, data, slot_node_map, idx_map)
       IN /\ rp_batch' = data
          /\ node_sinker_index_map' = idx_map
          /\ rp_delivered' = empty
          /\ rp_err' = res.err
          /\ IF res.err # "none"
             THEN /\ rp_pc' = "err"
                  /\ UNCHANGED <<rp_node_data, rp_tasks>>
             ELSE /\ rp_pc' = "spawned"
                  /\ rp_node_data' = res.items
                  /\ rp_tasks' = [i \in DOMAIN sinker_ids |-> "spawned"]
  /\ UNCHANGED <<slot_node_map, sinker_ids, rp_key_sinks>>

\* the task of sinker i takes the sinker's lock and sinks its node_data
RedisTaskSink(i) ==
  /\ rp_tasks[i] = "spawned"
  /\ rp_tasks' = [rp_tasks EXCEPT ![i] = "done"]
  /\ rp_delivered' = [rp_delivered EXCEPT ![i] = Append(@, rp_node_data[i])]
  /\ rp_key_sinks' = NoteKeys(rp_key_sinks, i, rp_node_data[i])
  /\ UNCHANGED <<slot_node_map, node_sinker_index_map, sinker_ids, rp_pc, rp_calls,
                 rp_batch, rp_err, rp_node_data>>

\* the sinker of task i returns Err and the task's unwrap panics
RedisTaskPanic(i) ==
  /\ rp_tasks[i] = "spawned"
  /\ rp_tasks' = [rp_tasks EXCEPT ![i] = "panicked"]
  /\ UNCHANGED <<slot_node_map, node_sinker_index_map, sinker_ids, rp_pc, rp_calls,
                 rp_batch, rp_err, rp_node_data, rp_delivered, rp_key_sinks>>

\* a sink_raw that awaits its first future only
RedisJoinFirstOnly ==
  /\ rp_pc = "spawned"
  /\ rp_tasks[1] = "done"
  /\ rp_pc' = "returned"
  /\ rp_tasks' = [i \in DOMAIN rp_tasks |-> "none"]
  /\ UNCHANGED <<slot_node_map, node_sinker_index_map, sinker_ids, rp_calls, rp_batch,
                 rp_err, rp_node_data, rp_delivered, rp_key_sinks>>

\* lines 117-121: every future was awaited and sink_raw returns Ok
RedisJoin ==
  /\ rp_pc = "spawned"
  /\ \A i \in DOMAIN rp_tasks : rp_tasks[i] = "done"
  /\ rp_pc' = "returned"
  /\ rp_tasks' = [i \in DOMAIN rp_tasks |-> "none"]
  /\ UNCHANGED <<slot_node_map, node_sinker_index_map, sinker_ids, rp_calls, rp_batch,
                 rp_err, rp_node_data, rp_delivered, rp_key_sinks>>

\* line 118: the awaited task has panicked and `future.await.unwrap()` panics
RedisJoinPanic ==
  /\ rp_pc = "spawned"
  /\ \E i \in DOMAIN rp_tasks :
       /\ rp_tasks[i] = "panicked"
       /\ \A j \in 1..(i - 1) : rp_tasks[j] = "done"
  /\ rp_pc' = "panic"
  /\ UNCHANGED <<slot_node_map, node_sinker_index_map, sinker_ids, rp_calls, rp_batch,
                 rp_err, rp_node_data, rp_tasks, rp_delivered, rp_key_sinks>>

\* sink_raw has returned Ok: the caller drops the batch and goes on
RedisNextCall ==
  /\ rp_pc = "returned"
  /\ rp_pc' = "idle"
  /\ rp_batch' = <<>>
  /\ rp_node_data' = [i \in DOMAIN sinker_ids |-> <<>>]
  /\ rp_delivered' = [i \in DOMAIN sinker_ids |-> <<>>]
  /\ UNCHANGED <<slot_node_map, node_sinker_index_map, sinker_ids, rp_calls, rp_err,
                 rp_tasks, rp_key_sinks>>

\* the sinker ids in the order of the sinkers
SinkerIdOrders ==
  {ids \in [1..Cardinality(RedisNodes) -> RedisNodes] :
     \A i, j \in DOMAIN ids : i # j => ids[i] # ids[j]}

RedisInit ==
  /\ slot_node_map \in {<<>>} \cup [RedisSlots -> RedisNodes]
  /\ node_sinker_index_map = <<>>
  /\ sinker_ids \in SinkerIdOrders
  /\ rp_pc = "idle"
  /\ rp_calls = 0
  /\ rp_batch = <<>>
  /\ rp_err = "none"
  /\ rp_node_data = [i \in DOMAIN sinker_ids |-> <<>>]
  /\ rp_tasks = [i \in DOMAIN sinker_ids |-> "none"]
  /\ rp_delivered = [i \in DOMAIN sinker_ids |-> <<>>]
  /\ rp_key_sinks = [k \in RedisKeys |-> {}]

RedisNext ==
  \/ RedisSinkRawNoCluster /\ RedisFrame
  \/ RedisSinkRawCluster /\ RedisFrame
  \/ \E i \in DOMAIN sinker_ids : RedisTaskSink(i) /\ RedisFrame
  \/ \E i \in DOMAIN sinker_ids : RedisTaskPanic(i) /\ RedisFrame
  \/ RedisJoin /\ RedisFrame
  \/ RedisJoinPanic /\ RedisFrame
  \/ RedisNextCall /\ RedisFrame

-----------------------------------------------------------------------------
\* the last sink_raw call ran on a cluster and returned Ok
RedisClusterCallDone ==
  /\ DOMAIN slot_node_map # {} /\ rp_pc = "returned"

\* the number of times sinker i received the item at position p in this call
TimesDelivered(i, p) ==
  Cardinality({<<d, j>> \in (DOMAIN rp_delivered[i]) \X (1..MaxBatch + 1) :
                 j \in DOMAIN rp_delivered[i][d] /\ rp_delivered[i][d][j].pos = p})

\* the events of the batch whose keys hash to different slots
MixedEvents(data) ==
  {p \in DOMAIN data : data[p].kind = "redis" /\ ~data[p].bad
                       /\ HasMixedSlots(cal_slots(data[p]).slots)}

(* C2: across all sink_raw calls, the events that carry a given key have all
   been dispatched to one and the same sinker. *)
C2_SameKeySameSink ==
  \A k \in RedisKeys : Cardinality(rp_key_sinks[k]) <= 1

\* on a cluster that spreads its slots over both nodes, two calls have each
\* dispatched an event carrying key 1, and one carrying key 2
C2_Witness ==
  /\ RedisClusterCallDone /\ rp_calls = 2
  /\ \E s, t \in DOMAIN slot_node_map : slot_node_map[s] # slot_node_map[t]
  /\ rp_key_sinks[1] # {} /\ rp_key_sinks[2] # {}
  /\ \E p \in DOMAIN rp_batch : 1 \in Range(rp_batch[p].keys)

(* C3: when a sink_raw call on a cluster has returned Ok, every event of the
   batch without a key was delivered exactly once to every sinker, and every
   event with a key exactly once to one sinker and never to another. *)
C3_FanOutOrSingle ==
  RedisClusterCallDone =>
    \A p \in DOMAIN rp_batch :
      IF rp_batch[p].keys = <<>>
      THEN \A i \in DOMAIN sinker_ids : TimesDelivered(i, p) = 1
      ELSE \E i \in DOMAIN sinker_ids :
             /\ TimesDelivered(i, p) = 1
             /\ \A j \in DOMAIN sinker_ids \ {i} : TimesDelivered(j, p) = 0

\* a call on a cluster has returned Ok on a batch of a keyless and a keyed event
C3_Witness ==
  /\ RedisClusterCallDone
  /\ \E p, q \in DOMAIN rp_batch :
       /\ rp_batch[p].kind = "redis" /\ rp_batch[p].keys = <<>>
       /\ rp_batch[q].keys # <<>>
  /\ Cardinality(DOMAIN sinker_ids) > 1

(* C4 as claimed: a call on a cluster whose batch holds an event with keys on
   different slots has failed with RedisCmdError, and no sinker received
   anything of the batch. *)
C4_MixedSlotsFailWithCmdError ==
  (DOMAIN slot_node_map # {} /\ MixedEvents(rp_batch) # {}) =>
    /\ rp_pc = "err" /\ rp_err = "RedisCmdError"
    /\ \A i \in DOMAIN sinker_ids : rp_delivered[i] = <<>> /\ rp_tasks[i] = "none"

(* C4 as amended: a call on a cluster whose batch holds an event with keys on
   different slots has failed, no task was spawned and no sinker received
   anything of the batch; the error is RedisCmdError, unless the slots of an
   event before the first such event could not be computed, and then it is
   that event's error. *)
C4_MixedSlotsFail ==
  (DOMAIN slot_node_map # {} /\ MixedEvents(rp_batch) # {}) =>
    LET first == CHOOSE p \in MixedEvents(rp_batch) :
                   \A q \in MixedEvents(rp_batch) : p <= q
    IN /\ rp_pc = "err"
       /\ \A i \in DOMAIN sinker_ids : rp_delivered[i] = <<>> /\ rp_tasks[i] = "none"
       /\ rp_err = IF \E q \in 1..(first - 1) : rp_batch[q].bad
                   THEN "KeyParseError" ELSE "RedisCmdError"

\* a call on a cluster has failed on a batch that has a single-slot event
\* before the mixed-slot one
C4_Witness ==
  /\ DOMAIN slot_node_map # {} /\ rp_pc = "err" /\ rp_err = "RedisCmdError"
  /\ Len(rp_batch) = 2 /\ MixedEvents(rp_batch) = {2}
  /\ rp_batch[1].keys # <<>>

-----------------------------------------------------------------------------
(***************************************************************************)
(* RedisReshardExtractor                                                   *)
(***************************************************************************)

\* the slots of the cluster are 0..MaxSlots-1 (16384 in a Redis cluster)
MaxSlots == 6
\* the cluster has 1..MaxNodes master nodes
MaxNodes == 4
\* a slot holds at most MaxSlotKeys keys
MaxSlotKeys == 1

\* const SLOTS_COUNT, scaled down to the model's slots
SLOTS_COUNT == MaxSlots

ClusterSlots == 0..(SLOTS_COUNT - 1)

\* the elements of a set of slots in ascending order
RECURSIVE SortedSeq(_)
SortedSeq(S) ==
  IF S = {} THEN <<>>
  ELSE LET m == CHOOSE x \in S : \A y \in S : x <= y
       IN <<m>> \o SortedSeq(S \ {m})

\* RedisUtil::get_cluster_master_nodes on a cluster with n masters
ClusterNodes(owner, n) ==
  [i \in 1..n |-> [id |-> i, slots |-> SortedSeq({s \in ClusterSlots : owner[s] = i})]]

\* RedisUtil::get_slot_address_map(&nodes)
slot_address_map(nodes) ==
  [s \in UNION {Range(nodes[i].slots) : i \in DOMAIN nodes} |->
     CHOOSE i \in DOMAIN nodes : s \in Range(nodes[i].slots)]

\* line 37
avg_slot_count(nodes) == SLOTS_COUNT \div Len(nodes)

\* a move-out list that takes the slots of a node from its avg-th on
RECURSIVE move_out_slots_from_avg(_, _)
move_out_slots_from_avg(nodes, avg) ==
  IF nodes = <<>> THEN <<>>
  ELSE LET slots == Head(nodes).slots
       IN SubSeq(slots, Max(avg, 1), Len(slots)) \o move_out_slots_from_avg(Tail(nodes), avg)

\* lines 40-46: the slots of every node beyond the first avg, in node order
RECURSIVE move_out_slots(_, _)
move_out_slots(nodes, avg) ==
  IF nodes = <<>> THEN <<>>
  ELSE LET slots == Head(nodes).slots
       IN SubSeq(slots, avg + 1, Len(slots)) \o move_out_slots(Tail(nodes), avg)

\* a loop that does not advance i
NextIndexStuck(i, count) == i

\* line 58: i += count
NextIndex(i, count) == i + count

\* lines 49-62: deal the move-out slots to the nodes below avg, in node order;
\* i counts the slots dealt so far
RECURSIVE node_move_in_slots(_, _, _, _)
node_move_in_slots(nodes, out, avg, i) ==
  IF nodes = <<>> THEN <<>>
  ELSE LET node == Head(nodes) IN
       IF avg <= Len(node.slots) \/ Len(out) <= i
       THEN node_move_in_slots(Tail(nodes), out, avg, i)
       ELSE LET count == Min(Len(out) - i, avg - Len(node.slots))
                slots == SubSeq(out, i + 1, i + count)
            IN (node.id :> slots)
                 @@ node_move_in_slots(Tail(nodes), out, avg, NextIndex(i, count))

\* a `?` that drops the error and goes on
AfterCommandIgnoringError(ok, next_pc) == next_pc

\* `?` on the result of a command or of a connection: go on, or return the error
AfterCommand(ok, next_pc) == IF ok THEN next_pc ELSE "failed"

\* history of a command or connection that was just issued
NoteIssued(ok) ==
  /\ rs_failed' = (rs_failed \/ ~ok)
  /\ rs_after_fail' = IF rs_failed THEN rs_after_fail + 1 ELSE rs_after_fail

\* a command of setslot_and_migrate is sent on the connection `on`
IssueCommand(cmd, on, ok, next_pc) ==
  /\ rs_cmds' = Append(rs_cmds, [cmd |-> cmd, on |-> on, ok |-> ok])
  /\ rs_pc' = AfterCommand(ok, next_pc)
  /\ NoteIssued(ok)

\* reshard, lines 34-62: connect, snapshot the nodes and plan the moves
RsPlan(ok) ==
  /\ rs_pc = "start"
  /\ rs_pc' = AfterCommand(ok, "next_dst")
  /\ NoteIssued(ok)
  /\ IF ok
     THEN LET nodes == ClusterNodes(rs_owner, Len(rs_nodes))
              avg == avg_slot_count(nodes)
              plan == node_move_in_slots(nodes, move_out_slots(nodes, avg), avg, 0)
          IN /\ rs_nodes' = nodes
             /\ rs_plan' = plan
             /\ rs_todo' = DOMAIN plan
     ELSE UNCHANGED <<rs_nodes, rs_plan, rs_todo>>
  /\ UNCHANGED <<rs_owner, rs_dst, rs_rest, rs_slot, rs_src, rs_cur_src, rs_keys, rs_cmds,
                 rs_moved>>

\* move_slots, lines 76-82: the next destination of the map, and its connection
RsOpenDst(dst, ok) ==
  /\ rs_pc = "next_dst"
  /\ dst \in rs_todo
  /\ rs_todo' = rs_todo \ {dst}
  /\ rs_dst' = dst
  /\ rs_rest' = rs_plan[dst]
  /\ rs_cur_src' = 0
  /\ rs_pc' = AfterCommand(ok, "next_slot")
  /\ NoteIssued(ok)
  /\ UNCHANGED <<rs_nodes, rs_owner, rs_plan, rs_slot, rs_src, rs_keys, rs_cmds, rs_moved>>

\* move_slots, line 107: every destination was iterated over
RsDone ==
  /\ rs_pc = "next_dst"
  /\ rs_todo = {}
  /\ rs_pc' = "done"
  /\ UNCHANGED <<rs_nodes, rs_owner, rs_plan, rs_todo, rs_dst, rs_rest, rs_slot, rs_src,
                 rs_cur_src, rs_keys, rs_cmds, rs_moved, rs_failed, rs_after_fail>>

\* move_slots, lines 83-94: the next slot of the destination, its source node
\* and, when the source node changed, a connection to it
RsNextSlot(ok) ==
  /\ rs_pc = "next_slot"
  /\ rs_rest # <<>>
  /\ LET slot == Head(rs_rest)
         src == slot_address_map(rs_nodes)[slot]
         src_node_changed == (rs_cur_src = 0 \/ src # rs_cur_src)
     IN /\ rs_slot' = slot
        /\ rs_src' = src
        /\ rs_rest' = Tail(rs_rest)
        /\ rs_cmds' = <<>>
        /\ IF src_node_changed
           THEN /\ rs_cur_src' = src
                /\ rs_pc' = AfterCommand(ok, "getkeys")
                /\ NoteIssued(ok)
           ELSE /\ ok
                /\ rs_pc' = "getkeys"
                /\ UNCHANGED <<rs_cur_src, rs_failed, rs_after_fail>>
  /\ UNCHANGED <<rs_nodes, rs_owner, rs_plan, rs_todo, rs_dst, rs_keys, rs_moved>>

\* move_slots, line 105: the slots of the destination are all moved
RsDstDone ==
  /\ rs_pc = "next_slot"
  /\ rs_rest = <<>>
  /\ rs_pc' = "next_dst"
  /\ UNCHANGED <<rs_nodes, rs_owner, rs_plan, rs_todo, rs_dst, rs_rest, rs_slot, rs_src,
                 rs_cur_src, rs_keys, rs_cmds, rs_moved, rs_failed, rs_after_fail>>

\* setslot_and_migrate, line 125: CLUSTER GETKEYSINSLOT on the source
RsGetKeys(ok, nkeys) ==
  /\ rs_pc = "getkeys"
  /\ IssueCommand("getkeysinslot", "src", ok, "importing")
  /\ rs_keys' = IF ok THEN nkeys ELSE 0
  /\ UNCHANGED <<rs_nodes, rs_owner, rs_plan, rs_todo, rs_dst, rs_rest, rs_slot, rs_src,
                 rs_cur_src, rs_moved>>

\* line 144: CLUSTER SETSLOT <slot> IMPORTING <src id> on the destination
RsImporting(ok) ==
  /\ rs_pc = "importing"
  /\ IssueCommand("importing", "dst", ok, "migrating")
  /\ UNCHANGED <<rs_nodes, rs_owner, rs_plan, rs_todo, rs_dst, rs_rest, rs_slot, rs_src,
                 rs_cur_src, rs_keys, rs_moved>>

\* line 145: CLUSTER SETSLOT <slot> MIGRATING <dst id> on the source
RsMigrating(ok) ==
  /\ rs_pc = "migrating"
  /\ IssueCommand("migrating", "src", ok, IF rs_keys > 0 THEN "migrate" ELSE "node_dst")
  /\ UNCHANGED <<rs_nodes, rs_owner, rs_plan, rs_todo, rs_dst, rs_rest, rs_slot, rs_src,
                 rs_cur_src, rs_keys, rs_moved>>

\* lines 148-167: MIGRATE of the next key on the source
RsMigrateKey(ok) ==
  /\ rs_pc = "migrate"
  /\ rs_keys > 0
  /\ IssueCommand("migrate", "src", ok, IF rs_keys > 1 THEN "migrate" ELSE "node_dst")
  /\ rs_keys' = rs_keys - 1
  /\ UNCHANGED <<rs_nodes, rs_owner, rs_plan, rs_todo, rs_dst, rs_rest, rs_slot, rs_src,
                 rs_cur_src, rs_moved>>

\* line 177: CLUSTER SETSLOT <slot> NODE <dst id> on the destination, which
\* takes the slot
RsNodeDst(ok) ==
  /\ rs_pc = "node_dst"
  /\ IssueCommand("node", "dst", ok, "node_src")
  /\ rs_owner' = IF ok THEN [rs_owner EXCEPT ![rs_slot] = rs_dst] ELSE rs_owner
  /\ rs_moved' = IF ok THEN [rs_moved EXCEPT ![rs_slot] = rs_dst] ELSE rs_moved
  /\ UNCHANGED <<rs_nodes, rs_plan, rs_todo, rs_dst, rs_rest, rs_slot, rs_src, rs_cur_src,
                 rs_keys>>

\* line 178: CLUSTER SETSLOT <slot> NODE <dst id> on the source
RsNodeSrc(ok) ==
  /\ rs_pc = "node_src"
  /\ IssueCommand("node", "src", ok, "next_slot")
  /\ UNCHANGED <<rs_nodes, rs_owner, rs_plan, rs_todo, rs_dst, rs_rest, rs_slot, rs_src,
                 rs_cur_src, rs_keys, rs_moved>>

ReshardInit ==
  /\ \E n \in 1..MaxNodes :
       /\ rs_owner \in [ClusterSlots -> 1..n]
       /\ rs_nodes = ClusterNodes(rs_owner, n)
  /\ rs_pc = "start"
  /\ rs_plan = <<>>
  /\ rs_todo = {}
  /\ rs_dst = 0
  /\ rs_rest = <<>>
  /\ rs_slot = 0
  /\ rs_src = 0
  /\ rs_cur_src = 0
  /\ rs_keys = 0
  /\ rs_cmds = <<>>
  /\ rs_moved = [s \in ClusterSlots |-> 0]
  /\ rs_failed = FALSE
  /\ rs_after_fail = 0

ReshardNext ==
  \/ \E ok \in BOOLEAN : RsPlan(ok) /\ ReshardFrame
  \/ \E dst \in 1..MaxNodes, ok \in BOOLEAN : RsOpenDst(dst, ok) /\ ReshardFrame
  \/ RsDone /\ ReshardFrame
  \/ \E ok \in BOOLEAN : RsNextSlot(ok) /\ ReshardFrame
  \/ RsDstDone /\ ReshardFrame
  \/ \E ok \in BOOLEAN, nkeys \in 0..MaxSlotKeys : RsGetKeys(ok, nkeys) /\ ReshardFrame
  \/ \E ok \in BOOLEAN : RsImporting(ok) /\ ReshardFrame
  \/ \E ok \in BOOLEAN : RsMigrating(ok) /\ ReshardFrame
  \/ \E ok \in BOOLEAN : RsMigrateKey(ok) /\ ReshardFrame
  \/ \E ok \in BOOLEAN : RsNodeDst(ok) /\ ReshardFrame
  \/ \E ok \in BOOLEAN : RsNodeSrc(ok) /\ ReshardFrame

-----------------------------------------------------------------------------
\* the number of slots a master owns in the cluster, and owned in the snapshot
OwnedCount(id) == Cardinality({s \in ClusterSlots : rs_owner[s] = id})

SnapshotCount(id) == Len(rs_nodes[id].slots)

ReshardSucceeded == rs_pc = "done"

(* C6 as claimed: after reshard has completed successfully, every master owns
   exactly floor(SLOTS_COUNT / N) slots. *)
C6_EveryMasterOwnsExactlyAvg ==
  ReshardSucceeded =>
    \A id \in DOMAIN rs_nodes : OwnedCount(id) = avg_slot_count(rs_nodes)

(* C6 as amended: after reshard has completed successfully, every master owns
   at least floor(SLOTS_COUNT / N) slots; a master that owned fewer before
   owns exactly that many, a master that owned at least that many has given
   away none but of its surplus, and all own exactly that many when N divides
   SLOTS_COUNT. *)
C6_EveryMasterOwnsAtLeastAvg ==
  ReshardSucceeded =>
    LET avg == avg_slot_count(rs_nodes) IN
    /\ \A id \in DOMAIN rs_nodes :
         /\ OwnedCount(id) >= avg
         /\ SnapshotCount(id) < avg => OwnedCount(id) = avg
         /\ SnapshotCount(id) >= avg => OwnedCount(id) <= SnapshotCount(id)
    /\ SLOTS_COUNT % Len(rs_nodes) = 0 =>
         \A id \in DOMAIN rs_nodes : OwnedCount(id) = avg

\* reshard has completed after moving slots to two masters
C6_Witness ==
  /\ ReshardSucceeded
  /\ Cardinality({rs_moved[s] : s \in ClusterSlots} \ {0}) = 2

\* the place of a command in the order the claim gives
CommandRank(c) ==
  CASE c.cmd = "importing" -> 1
    [] c.cmd = "migrating" -> 2
    [] c.cmd = "getkeysinslot" -> 3
    [] c.cmd = "migrate" -> 4
    [] c.cmd = "node" -> 5

(* C7: the commands issued for a slot come in the order SETSLOT IMPORTING on
   the destination, SETSLOT MIGRATING on the source, GETKEYSINSLOT on the
   source, the MIGRATEs on the source, SETSLOT NODE on both: the first command
   is the IMPORTING and no command comes before one of a lower place. *)
C7_KeysEnumeratedAfterMarking ==
  /\ rs_cmds # <<>> => (rs_cmds[1].cmd = "importing" /\ rs_cmds[1].on = "dst")
  /\ \A i, j \in DOMAIN rs_cmds : i < j => CommandRank(rs_cmds[i]) <= CommandRank(rs_cmds[j])

(* C8: once a command or a connection has failed, nothing more is issued, for
   this slot or a later one, and every slot that was moved is still owned by
   the destination it was moved to. *)
C8_FailFastNoRollback ==
  /\ rs_after_fail = 0
  /\ rs_failed => rs_pc = "failed"
  /\ \A s \in ClusterSlots : rs_moved[s] # 0 => rs_owner[s] = rs_moved[s]

\* a MIGRATE has failed after a slot was moved, with slots still planned
C8_Witness ==
  /\ rs_failed /\ rs_pc = "failed"
  /\ rs_cmds # <<>> /\ Last(rs_cmds).cmd = "migrate" /\ ~Last(rs_cmds).ok
  /\ \E s \in ClusterSlots : rs_moved[s] # 0
  /\ (rs_rest # <<>> \/ rs_todo # {})

-----------------------------------------------------------------------------
(***************************************************************************)
(* StarRocksSinker                                                         *)
(***************************************************************************)

\* a send_data call takes at most MaxRows rows
MaxRows == 2
\* send_data is called while sync_timestamp is below MaxTimestamp
MaxTimestamp == 3
\* Utc::now().timestamp_millis() reads 0 or MaxClock
MaxClock == 1

SIGN_COL_NAME == "_ape_dts_is_deleted"
TIMESTAMP_COL_NAME == "_ape_dts_timestamp"

\* ColValues of the source rows, and the column they are in
SrColValues == {[t |-> "Long", v |-> 1], [t |-> "Bit", v |-> 1]}

SrImages == {[c \in {"id"} |-> val] : val \in SrColValues}

\* RowData: Insert has an after image, Delete a before image, Update both;
\* an Option is a sequence of length 0 or 1. The rows taken: an Insert of a
\* Bit, a Delete of a Long or of a Bit, an Update of a Long to a Bit.
SrRowData ==
  [row_type : {"Insert"}, before : {<<>>},
   after : {<<img>> : img \in {i \in SrImages : i["id"].t = "Bit"}}]
    \cup [row_type : {"Delete"}, before : {<<img>> : img \in SrImages}, after : {<<>>}]
    \cup {r \in [row_type : {"Update"}, before : {<<img>> : img \in SrImages},
                  after : {<<img>> : img \in SrImages}] :
            r.before[1]["id"].t = "Long" /\ r.after[1]["id"].t = "Bit"}

SrBatches == UNION {[1..n -> SrRowData] : n \in 1..MaxRows}

\* HashMap::insert
MapInsert(map, col, val) ==
  [c \in DOMAIN map \cup {col} |-> IF c = col THEN val ELSE map[c]]

\* convert_col_values, lines 195-208: Blob and RawString become String, Bit
\* becomes LongLong
ConvertColValue(val) ==
  CASE val.t \in {"Blob", "RawString"} -> [t |-> "String", v |-> val.v]
    [] val.t = "Bit" -> [t |-> "LongLong", v |-> val.v]
    [] OTHER -> val

convert_col_values(col_values) ==
  [c \in DOMAIN col_values |-> ConvertColValue(col_values[c])]

\* convert_row_data, lines 164-172
convert_row_data(row_data) ==
  [row_data EXCEPT
     !.before = [i \in DOMAIN row_data.before |-> convert_col_values(row_data.before[i])],
     !.after = [i \in DOMAIN row_data.after |-> convert_col_values(row_data.after[i])]]

\* a bump that is satisfied with the clock or the last timestamp
BumpTimestampNoStep(now, ts) == Max(now, ts)

\* line 100: cmp::max(Utc::now().timestamp_millis(), self.sync_timestamp + 1)
BumpTimestamp(now, ts) == Max(now, ts + 1)

\* a row builder that injects the sign column only when the table has it
BuildRowSignByMeta(row_data, db_type, has_sign, ts) ==
  LET row == convert_row_data(row_data)
      col_values ==
        IF row.row_type = "Delete"
        THEN IF db_type = "StarRocks" /\ has_sign
             THEN MapInsert(row.before[1], SIGN_COL_NAME, [t |-> "Long", v |-> 1])
             ELSE row.before[1]
        ELSE row.after[1]
  IN IF db_type = "StarRocks"
     THEN MapInsert(col_values, TIMESTAMP_COL_NAME, [t |-> "LongLong", v |-> ts])
     ELSE col_values

\* lines 106-129: the column map a row contributes to load_data
BuildRow(row_data, db_type, has_sign, ts) ==
  LET row == convert_row_data(row_data)
      col_values ==
        IF row.row_type = "Delete"
        THEN IF db_type = "StarRocks"
             THEN MapInsert(row.before[1], SIGN_COL_NAME, [t |-> "Long", v |-> 1])
             ELSE row.before[1]
        ELSE row.after[1]
  IN IF db_type = "StarRocks"
     THEN MapInsert(col_values, TIMESTAMP_COL_NAME, [t |-> "LongLong", v |-> ts])
     ELSE col_values

\* lines 132-144: the delete header
DeleteOp(first_row_type, db_type, hard_delete_cfg, has_sign) ==
  IF db_type = "StarRocks"
  THEN LET hard_delete == hard_delete_cfg \/ ~has_sign
       IN IF first_row_type = "Delete" /\ hard_delete THEN "delete" ELSE ""
  ELSE IF first_row_type = "Delete" THEN "delete" ELSE ""

\* build_request, lines 224-259: the headers of the stream load request; the
\* op, when there is one, goes into `columns` (StarRocks) or `merge_type` (Doris)
build_request(op, db_type) ==
  LET put == [h \in {"Expect", "format", "strip_outer_array", "timezone"} |->
                CASE h = "Expect" -> "100-continue"
                  [] h = "format" -> "json"
                  [] h = "strip_outer_array" -> "true"
                  [] h = "timezone" -> "UTC"]
  IN IF op # ""
     THEN IF db_type = "StarRocks"
          THEN MapInsert(put, "columns", "__op='" \o op \o "'")
          ELSE MapInsert(put, "merge_type", op)
     ELSE put

\* history: the last two entries
LastTwo(s) == IF Len(s) <= 2 THEN s ELSE SubSeq(s, Len(s) - 1, Len(s))

\* serde_json Values of response bodies
JsonNull == [t |-> "null"]

JsonString(str) == [t |-> "string", v |-> str]

JsonObject(fields) == [t |-> "object", fields |-> fields]

\* Value's index by key: the member of an object, Null otherwise
JsonIndex(value, key) ==
  IF value.t = "object" /\ key \in DOMAIN value.fields THEN value.fields[key] ELSE JsonNull

\* response bodies: one that is not JSON, and JSON documents; `json` is the
\* result of serde_json::from_str, <<>> for Err; a body whose text cannot be
\* read (line 266) is not readable
SrBodies ==
  {[readable |-> TRUE, json |-> <<>>],
   [readable |-> TRUE,
    json |-> <<JsonObject([k \in {"Status", "Message"} |->
                            IF k = "Status" THEN JsonString("Success") ELSE JsonString("OK")])>>],
   [readable |-> TRUE,
    json |-> <<JsonObject([k \in {"Status", "Message"} |->
                            IF k = "Status" THEN JsonString("Fail") ELSE JsonString("OK")])>>],
   [readable |-> TRUE, json |-> <<JsonObject([k \in {"Message"} |-> JsonString("Success")])>>]}

\* responses: any body with status 200, and the success body with status 500
SrResponses ==
  [status : {200}, body : SrBodies]
    \cup {r \in [status : {500}, body : SrBodies] :
            r.body.json # <<>> /\ JsonIndex(r.body.json[1], "Status") = JsonString("Success")}

\* a response check that does not look at the HTTP status
check_response_body_only(response) ==
  IF ~response.body.readable THEN "response_err"
  ELSE IF response.body.json = <<>> THEN "response_err"
  ELSE IF JsonIndex(response.body.json[1], "Status") # JsonString("Success")
       THEN "response_err"
  ELSE "ok"

\* check_response, lines 264-302
check_response(response) ==
  IF ~response.body.readable THEN "response_err"
  ELSE IF response.status # 200 THEN "response_err"
  ELSE IF response.body.json = <<>> THEN "response_err"
  ELSE IF JsonIndex(response.body.json[1], "Status") # JsonString("Success")
       THEN "response_err"
  ELSE "ok"

\* how a send_data call can end before it has a response: get_tb_meta fails,
\* a column conversion fails, the HTTP request fails
SrEarlyErrors == {"meta_err", "convert_err", "http_err"}

\* how a send_data call can end: early, or with a response
SrOutcomes ==
  [early : SrEarlyErrors, response : {<<>>}]
    \cup [early : {"none"}, response : {<<r>> : r \in SrResponses}]

\* send_data(data, start_index, batch_size), with the clock at `now`
SrSendData(data, start_index, batch_size, now, outcome) ==
  LET result == IF outcome.early # "none" THEN outcome.early
                ELSE check_response(outcome.response[1])
      rows == SubSeq(data, start_index, Min(Len(data), start_index + batch_size - 1))
      first_row_type == data[start_index].row_type
      ts == BumpTimestamp(now, sync_timestamp)
      load_data == [i \in DOMAIN rows |->
                      BuildRow(rows[i], sr_db_type, sr_meta_has_sign, ts)]
      op == DeleteOp(first_row_type, sr_db_type, sr_hard_delete, sr_meta_has_sign)
  IN /\ sr_rows' = rows
     /\ sr_result' = result
     /\ sr_response' = IF outcome.early # "none" THEN <<>> ELSE outcome.response[1]
     /\ sync_timestamp' = IF result = "meta_err" THEN sync_timestamp ELSE ts
     /\ IF result \in {"meta_err", "convert_err"}
        THEN UNCHANGED <<sr_request, sr_stamps>>
        ELSE /\ sr_request' = [op |-> op, headers |-> build_request(op, sr_db_type),
                              load_data |-> load_data]
             /\ sr_stamps' = LastTwo(Append(sr_stamps,
                                   [ts |-> ts, clock_behind |-> now <= sync_timestamp,
                                    sent_ok |-> result = "ok"]))
     /\ sr_sent' = Append(sr_sent, [rows |-> rows, result |-> result])
     /\ UNCHANGED <<sr_db_type, sr_hard_delete, sr_meta_has_sign>>

\* sink_dml(data, batch), lines 48-59: an empty batch returns Ok at once
SrSinkDml ==
  /\ sr_ret = "none"
  /\ sync_timestamp < MaxTimestamp
  /\ \E data \in SrBatches \cup {<<>>}, batch \in BOOLEAN :
       /\ sr_data' = data
       /\ sr_batch' = batch
       /\ sr_ret' = IF data = <<>> THEN "ok" ELSE "running"
  /\ sr_next' = 1
  /\ sr_sent' = <<>>
  /\ UNCHANGED <<sr_db_type, sr_hard_delete, sr_meta_has_sign, sync_timestamp, sr_rows,
                 sr_result, sr_request, sr_response, sr_stamps, sr_batch_size>>

\* the batch size of the next batch_sink call: self.batch_size, or what is left
NextBatchSize ==
  Min(sr_batch_size, Len(sr_data) - (sr_next - 1))

\* the readings of Utc::now().timestamp_millis() taken: the epoch and MaxClock
SrClock == {0, MaxClock}

\* a call of send_data: by serial_sink on one row (line 73), or by batch_sink
\* (line 85) on the next batch_size rows
SrSend ==
  /\ sr_ret = "running"
  /\ sr_result = "none"
  /\ sr_next <= Len(sr_data)
  /\ sync_timestamp < MaxTimestamp
  /\ \E now \in SrClock, outcome \in SrOutcomes :
       SrSendData(sr_data, sr_next, IF sr_batch THEN NextBatchSize ELSE 1, now, outcome)
  /\ UNCHANGED <<sr_batch_size, sr_data, sr_batch, sr_next, sr_ret>>

SrInit ==
  /\ sr_db_type \in {"StarRocks", "Doris"}
  /\ sr_hard_delete \in BOOLEAN
  /\ sr_meta_has_sign \in BOOLEAN
  /\ sync_timestamp \in SrClock
  /\ sr_rows = <<>>
  /\ sr_result = "none"
  /\ sr_request = <<>>
  /\ sr_response = <<>>
  /\ sr_stamps = <<>>
  /\ sr_batch_size \in 1..MaxRows
  /\ sr_data = <<>>
  /\ sr_batch = FALSE
  /\ sr_next = 1
  /\ sr_sent = <<>>
  /\ sr_ret = "none"

\* a caller that goes on whatever send_data returned
PropagatesNever(result) == FALSE

\* `?` on the result of send_data, lines 73 and 85: an Err returns from the caller
Propagates(result) == result # "ok"

\* send_data has returned to serial_sink (line 73) or to batch_sink (line 85):
\* an error is propagated by `?` up to sink_dml, Ok goes on with the next row
\* or batch and, when no row is left, sink_dml returns Ok; the rows and the
\* request of the call are dropped
SrReturn ==
  /\ sr_result \notin {"none", "off"}
  /\ sr_result' = "none"
  /\ sr_rows' = <<>>
  /\ sr_request' = <<>>
  /\ sr_response' = <<>>
  /\ IF ~Propagates(sr_result)
     THEN /\ sr_next' = sr_next + Len(sr_rows)
          /\ sr_ret' = IF sr_next' > Len(sr_data) THEN "ok" ELSE "running"
     ELSE /\ sr_next' = sr_next
          /\ sr_ret' = "err"
  /\ UNCHANGED <<sr_db_type, sr_hard_delete, sr_meta_has_sign, sync_timestamp, sr_stamps,
                 sr_batch_size, sr_data, sr_batch, sr_sent>>

\* the caller of sink_dml has its result
SrSinkDmlReturn ==
  /\ sr_ret \in {"ok", "err"}
  /\ sr_ret' = "none"
  /\ sr_data' = <<>>
  /\ sr_batch' = FALSE
  /\ sr_next' = 1
  /\ sr_sent' = <<>>
  /\ UNCHANGED <<sr_db_type, sr_hard_delete, sr_meta_has_sign, sync_timestamp, sr_rows,
                 sr_result, sr_request, sr_response, sr_stamps, sr_batch_size>>

SrNext ==
  \/ SrSinkDml /\ SrFrame
  \/ SrSend /\ SrFrame
  \/ SrReturn /\ SrFrame
  \/ SrSinkDmlReturn /\ SrFrame

-----------------------------------------------------------------------------
(* C9: of two successive batches of a sinker, the second carries a strictly
   greater sync_timestamp than the first, wherever the clock stood at the
   second and however the request of the first ended; the timestamp of a
   batch is the one its rows are stamped with (StarRocks). *)
C9_TimestampsStrictlyIncrease ==
  /\ \A i \in 1..(Len(sr_stamps) - 1) : sr_stamps[i + 1].ts > sr_stamps[i].ts
  /\ (sr_result \in {"http_err", "response_err", "ok"} /\ sr_db_type = "StarRocks") =>
       \A i \in DOMAIN sr_request.load_data :
         sr_request.load_data[i][TIMESTAMP_COL_NAME].v = Last(sr_stamps).ts

\* two successive batches, the first one's request failed and the clock at
\* the second was not ahead of the sinker's timestamp
C9_Witness ==
  \E i \in 1..(Len(sr_stamps) - 1) :
    /\ ~sr_stamps[i].sent_ok
    /\ sr_stamps[i + 1].clock_behind

\* a request was built by the last send_data call
SrRequestBuilt == sr_result \in {"http_err", "response_err", "ok"}

\* the column map of row i of the last request, without the timestamp column
LoadRow(i) ==
  [c \in DOMAIN sr_request.load_data[i] \ {TIMESTAMP_COL_NAME} |->
     sr_request.load_data[i][c]]

(* C10 as claimed: a Delete row carries the sign column only when the table's
   meta has the sign column. *)
C10_SignColumnOnlyWithMeta ==
  SrRequestBuilt =>
    \A i \in DOMAIN sr_rows :
      (sr_rows[i].row_type = "Delete" /\ SIGN_COL_NAME \in DOMAIN sr_request.load_data[i])
        => sr_meta_has_sign

(* C10 as amended: a Delete row contributes its (converted) pre-image, with
   the sign column set to 1 exactly when the sinker's db_type is StarRocks,
   whether or not the table's meta has the sign column; an Insert or Update
   row contributes its (converted) post-image with no sign column. *)
C10_RowImages ==
  SrRequestBuilt =>
    /\ DOMAIN sr_request.load_data = DOMAIN sr_rows
    /\ \A i \in DOMAIN sr_rows :
         IF sr_rows[i].row_type = "Delete"
         THEN LoadRow(i) =
                IF sr_db_type = "StarRocks"
                THEN MapInsert(convert_col_values(sr_rows[i].before[1]), SIGN_COL_NAME,
                               [t |-> "Long", v |-> 1])
                ELSE convert_col_values(sr_rows[i].before[1])
         ELSE LoadRow(i) = convert_col_values(sr_rows[i].after[1])

\* a StarRocks sinker has built a Delete row for a table without the sign
\* column, beside an Update row
C10_Witness ==
  /\ SrRequestBuilt
  /\ sr_db_type = "StarRocks" /\ ~sr_meta_has_sign
  /\ \E i, j \in DOMAIN sr_rows :
       /\ sr_rows[i].row_type = "Delete"
       /\ SIGN_COL_NAME \in DOMAIN sr_request.load_data[i]
       /\ sr_rows[j].row_type = "Update"
       /\ sr_rows[j].before # sr_rows[j].after

(* C13: a send_data call that got a response succeeds if and only if the
   status is 200 and the body is JSON whose Status member is the string
   "Success"; a non-200 status, a body that is not JSON and any other Status
   fail the batch (its sink_dml call ends with the error). *)
C13_SuccessIffOkAndStatusSuccess ==
  /\ sr_response # <<>> =>
       (sr_result = "ok" <=>
          /\ sr_response.status = 200
          /\ sr_response.body.readable
          /\ sr_response.body.json # <<>>
          /\ sr_response.body.json[1].t = "object"
          /\ "Status" \in DOMAIN sr_response.body.json[1].fields
          /\ sr_response.body.json[1].fields["Status"] = JsonString("Success"))
  /\ (sr_sent # <<>> /\ Last(sr_sent).result # "ok") => sr_ret # "ok"
  /\ sr_ret = "ok" => \A k \in DOMAIN sr_sent : sr_sent[k].result = "ok"

\* a response with the success body and status 500 has failed a request that
\* followed a successful one
C13_Witness ==
  /\ sr_response # <<>> /\ sr_response.status = 500
  /\ JsonIndex(sr_response.body.json[1], "Status") = JsonString("Success")
  /\ sr_result = "response_err"
  /\ Len(sr_sent) = 2 /\ sr_sent[1].result = "ok"

(* C12: in non-batch mode the send_data calls of a sink_dml call take the rows
   of the batch one by one in input order; every call before the last one
   succeeded, so nothing is sent after a failed call; sink_dml returns the
   error once a call has failed, and returns Ok only after all rows were
   sent successfully. *)
C12_SerialInOrderFailFast ==
  (sr_ret \in {"running", "ok", "err"} /\ ~sr_batch) =>
    /\ Len(sr_sent) <= Len(sr_data)
    /\ \A k \in DOMAIN sr_sent : sr_sent[k].rows = <<sr_data[k]>>
    /\ \A k \in 1..(Len(sr_sent) - 1) : sr_sent[k].result = "ok"
    /\ SrRequestBuilt => Len(sr_request.load_data) = 1
    /\ sr_ret = "ok" =>
         Len(sr_sent) = Len(sr_data) /\ \A k \in DOMAIN sr_sent : sr_sent[k].result = "ok"
    /\ sr_ret = "err" <=>
         (sr_sent # <<>> /\ Last(sr_sent).result # "ok" /\ sr_result = "none")

\* a serial sink_dml call on two different rows has returned the error of the
\* first row's request, and the second row was not sent
C12_Witness ==
  /\ ~sr_batch /\ sr_ret = "err"
  /\ Len(sr_data) = 2 /\ sr_data[1] # sr_data[2]
  /\ Len(sr_sent) = 1 /\ sr_sent[1].result \in {"http_err", "response_err"}

\* the last request carries the delete header of the sinker's dialect
HasDeleteHeader ==
  IF sr_db_type = "StarRocks"
  THEN "columns" \in DOMAIN sr_request.headers
         /\ sr_request.headers["columns"] = "__op='delete'"
  ELSE "merge_type" \in DOMAIN sr_request.headers
         /\ sr_request.headers["merge_type"] = "delete"

(* C11 as claimed: the request carries the delete header if and only if every
   row of the batch is a Delete and the table has no sign column; a batch with
   a non-Delete row never carries it. *)
C11_DeleteHeaderIffAllDeleteNoSign ==
  SrRequestBuilt =>
    (HasDeleteHeader <=>
       /\ \A i \in DOMAIN sr_rows : sr_rows[i].row_type = "Delete"
       /\ ~sr_meta_has_sign)

(* C11, what send_data does: the header follows the first row of the batch
   alone; for StarRocks it also needs the hard_delete setting or a table
   without sign column, for Doris nothing more. *)
C11_HeaderFollowsFirstRow ==
  SrRequestBuilt =>
    (HasDeleteHeader <=>
       /\ sr_rows[1].row_type = "Delete"
       /\ sr_db_type = "StarRocks" => (sr_hard_delete \/ ~sr_meta_has_sign))

\* C11: a batch of a Delete row followed by a non-Delete row carries the header
C11_MixedBatchWithHeader ==
  /\ SrRequestBuilt
  /\ HasDeleteHeader
  /\ sr_rows[1].row_type = "Delete"
  /\ \E i \in DOMAIN sr_rows : sr_rows[i].row_type # "Delete"

-----------------------------------------------------------------------------
(***************************************************************************)
(* RdkafkaSinker and the encoders                                          *)
(***************************************************************************)

\* a sink_dml call of the message-bus sinker takes at most MaxKfRows rows
MaxKfRows == 2

JsonNumber(n) == [t |-> "number", v |-> n]

JsonBool(b) == [t |-> "bool", v |-> b]

JsonArray(elems) == [t |-> "array", elems |-> elems]

\* MessageFormat, message_format.rs lines 5-10
KfFormats ==
  {[kind |-> "Avro", template |-> ""], [kind |-> "Json", template |-> ""],
   [kind |-> "JsonTemplate", template |-> "Standard"],
   [kind |-> "JsonTemplate", template |-> "CloudCanal"]}

\* the converter's meta manager (none, or of a MySQL or PostgreSQL source),
\* whether get_tb_meta succeeds and whether the table has a primary key
KfMetas ==
  {[manager |-> "none", lookup_ok |-> FALSE, has_pk |-> FALSE]}
    \cup [manager : {"mysql", "pg"}, lookup_ok : {FALSE}, has_pk : {FALSE}]
    \cup [manager : {"mysql", "pg"}, lookup_ok : {TRUE}, has_pk : BOOLEAN]

\* tb_meta of the one table: its columns, their origin types, its primary key
KfCols == <<"id">>

KfColOriginType == [c \in {"id"} |-> "bigint"]

KfPrimaryKey == <<"id">>

KfColValues == {[t |-> "Long", v |-> 1], [t |-> "Bit", v |-> 1]}

KfImages == {[c \in {"id"} |-> val] : val \in KfColValues}

\* RowData of the one table s1.t1; an Option is a sequence of length 0 or 1
KfRowData ==
  [schema : {"s1"}, tb : {"t1"}, row_type : {"Insert"}, before : {<<>>},
   after : {<<img>> : img \in KfImages}]
    \cup [schema : {"s1"}, tb : {"t1"}, row_type : {"Delete"},
          before : {<<img>> : img \in KfImages}, after : {<<>>}]
    \cup {r \in [schema : {"s1"}, tb : {"t1"}, row_type : {"Update"},
                 before : {<<img>> : img \in KfImages},
                 after : {<<img>> : img \in KfImages}] : r.before # r.after}

KfBatches == UNION {[1..n -> KfRowData] : n \in 1..MaxKfRows}

\* RowData::convert_raw_string: RawString values become String
convert_raw_string(row_data) ==
  LET conv(img) == [c \in DOMAIN img |->
                      IF img[c].t = "RawString" THEN [t |-> "String", v |-> img[c].v]
                      ELSE img[c]]
  IN [row_data EXCEPT !.before = [i \in DOMAIN row_data.before |-> conv(row_data.before[i])],
                      !.after = [i \in DOMAIN row_data.after |-> conv(row_data.after[i])]]

\* RdbRouter::get_topic: the topic of schema.table
get_topic(schema, tb) == "topic_" \o schema \o "." \o tb

\* json_converter.rs col_value_to_json_value, lines 91-156
json_col_value_to_json_value(value) ==
  CASE value.t \in {"Long", "LongLong", "Bit"} -> JsonNumber(value.v)
    [] value.t = "String" -> JsonString(value.v)
    [] value.t \in {"RawString", "Blob"} -> JsonString(<<"base64", value.v>>)
    [] OTHER -> JsonNull

\* json_converter.rs col_values_to_json_value, lines 83-89
json_col_values_to_json_value(col_values) ==
  JsonObject([c \in DOMAIN col_values |-> json_col_value_to_json_value(col_values[c])])

\* the values of the primary-key columns found in the post-image, in key order
RECURSIVE KeyValues(_, _)
KeyValues(row_data, pk) ==
  IF pk = <<>> THEN <<>>
  ELSE LET rest == KeyValues(row_data, Tail(pk))
       IN IF row_data.after # <<>> /\ Head(pk) \in DOMAIN row_data.after[1]
          THEN <<row_data.after[1][Head(pk)]>> \o rest
          ELSE rest

\* JsonConverter::row_data_to_json_key, lines 35-50
row_data_to_json_key(row_data, meta) ==
  IF meta.manager # "none" /\ meta.lookup_ok /\ meta.has_pk
  THEN LET key_values == KeyValues(row_data, KfPrimaryKey)
       IN JsonArray([i \in DOMAIN key_values |->
                       json_col_value_to_json_value(key_values[i])])
  ELSE JsonString(row_data.schema \o "_" \o row_data.tb)

\* RowType::to_string
RowTypeToString(row_type) ==
  CASE row_type = "Insert" -> "insert"
    [] row_type = "Update" -> "update"
    [] row_type = "Delete" -> "delete"

\* JsonConverter::row_data_to_json_value, lines 52-68
row_data_to_json_value(row_data) ==
  LET base == [k \in {"operation", "schema", "tb"} |->
                 CASE k = "operation" -> JsonString(RowTypeToString(row_data.row_type))
                   [] k = "schema" -> JsonString(row_data.schema)
                   [] k = "tb" -> JsonString(row_data.tb)]
      with_before == IF row_data.before # <<>>
                     THEN MapInsert(base, "before",
                                    json_col_values_to_json_value(row_data.before[1]))
                     ELSE base
  IN JsonObject(IF row_data.after # <<>>
                THEN MapInsert(with_before, "after",
                               json_col_values_to_json_value(row_data.after[1]))
                ELSE with_before)

\* cloudcanal_converter.rs col_value_to_json_value, lines 184-222
cloudcanal_col_value_to_json_value(value) ==
  CASE value.t \in {"Long", "LongLong"} -> JsonNumber(value.v)
    [] value.t = "Bit" -> JsonString(ToString(value.v))
    [] value.t \in {"String", "RawString"} -> JsonString(value.v)
    [] value.t = "Blob" -> JsonString(<<"base64", value.v>>)
    [] OTHER -> JsonNull

\* cloudcanal_converter.rs col_values_to_json_value, lines 176-182
cloudcanal_col_values_to_json_value(col_values) ==
  JsonObject([c \in DOMAIN col_values |->
                cloudcanal_col_value_to_json_value(col_values[c])])

\* CloudCanalConverter::row_data_to_json_key, lines 36-51
cloudcanal_row_data_to_json_key(row_data, meta) ==
  IF meta.manager # "none" /\ meta.lookup_ok /\ meta.has_pk
  THEN LET key_values == KeyValues(row_data, KfPrimaryKey)
       IN JsonArray([i \in DOMAIN key_values |->
                       cloudcanal_col_value_to_json_value(key_values[i])])
  ELSE JsonString(row_data.schema \o "_" \o row_data.tb)

\* str::contains over the type texts of the model
TypeContains(text, sub) ==
  \/ text = sub
  \/ text \in {"bigint", "integer"} /\ sub = "int"

\* the JDBC type code of a column's origin type, lines 120-127 (MySQL) and
\* 132-139 (PostgreSQL)
JdbcTypeCode(origin_type, manager) ==
  CASE TypeContains(origin_type, "bigint") -> -5
    [] ~TypeContains(origin_type, "bigint")
         /\ TypeContains(origin_type, IF manager = "mysql" THEN "int" ELSE "integer") -> 4
    [] OTHER -> 12

\* CloudCanalConverter::row_data_to_json_value, lines 53-151, with the clock
\* at exec_ts and send_ts
cloudcanal_row_data_to_json_value(row_data, meta, exec_ts, send_ts) ==
  LET action == CASE row_data.row_type = "Insert" -> "INSERT"
                  [] row_data.row_type = "Update" -> "UPDATE"
                  [] row_data.row_type = "Delete" -> "DELETE"
      base == [k \in {"action", "bid", "db", "schema", "table", "ddl", "entryType",
                      "execTs", "sendTs", "sql", "pks"} |->
                 CASE k = "action" -> JsonString(action)
                   [] k = "bid" -> JsonNumber(0)
                   [] k = "db" -> JsonString(row_data.schema)
                   [] k = "schema" -> JsonString(row_data.schema)
                   [] k = "table" -> JsonString(row_data.tb)
                   [] k = "ddl" -> JsonBool(FALSE)
                   [] k = "entryType" -> JsonString("ROWDATA")
                   [] k = "execTs" -> JsonNumber(exec_ts)
                   [] k = "sendTs" -> JsonNumber(send_ts)
                   [] k = "sql" -> JsonNull
                   [] k = "pks" -> JsonArray(<<>>)]
      with_before == IF row_data.before # <<>>
                     THEN MapInsert(base, "before",
                            JsonArray(<<cloudcanal_col_values_to_json_value(row_data.before[1])>>))
                     ELSE base
      with_data == IF row_data.after # <<>>
                   THEN MapInsert(with_before, "data",
                          JsonArray(<<cloudcanal_col_values_to_json_value(row_data.after[1])>>))
                   ELSE with_before
      typed == {KfCols[i] : i \in DOMAIN KfCols} \cap DOMAIN KfColOriginType
      with_pks == IF meta.has_pk
                  THEN MapInsert(with_data, "pks",
                         JsonArray([i \in DOMAIN KfPrimaryKey |-> JsonString(KfPrimaryKey[i])]))
                  ELSE with_data
      with_types ==
        MapInsert(MapInsert(with_pks, "dbValType",
                            JsonObject([c \in typed |-> JsonString(KfColOriginType[c])])),
                  "jdbcType",
                  JsonObject([c \in typed |->
                                JsonNumber(JdbcTypeCode(KfColOriginType[c], meta.manager))]))
  IN JsonObject(IF meta.manager # "none" /\ meta.lookup_ok THEN with_types ELSE with_data)

\* AvroConverter::row_data_to_avro_key: the primary-key tuple as an Avro datum
row_data_to_avro_key(row_data, meta) ==
  [avro |-> IF meta.manager # "none" /\ meta.lookup_ok /\ meta.has_pk
            THEN KeyValues(row_data, KfPrimaryKey)
            ELSE <<>>]

\* AvroConverter::row_data_to_avro_value: the row as an Avro record
row_data_to_avro_value(row_data) ==
  [avro |-> [schema |-> row_data.schema, tb |-> row_data.tb,
             operation |-> RowTypeToString(row_data.row_type),
             before |-> row_data.before, after |-> row_data.after]]

\* send_avro, lines 57-59: topic, key and payload of a row
send_avro(row_data, meta) ==
  [topic |-> get_topic(row_data.schema, row_data.tb),
   key |-> row_data_to_avro_key(row_data, meta),
   payload |-> row_data_to_avro_value(row_data)]

\* send_json, lines 106-108
send_json(row_data, meta) ==
  [topic |-> get_topic(row_data.schema, row_data.tb),
   key |-> row_data_to_json_key(row_data, meta),
   payload |-> row_data_to_json_value(row_data)]

\* send_json_template, lines 154-163: whatever the template type, key and
\* payload come from json_converter
send_json_template(row_data, meta, template) ==
  [topic |-> get_topic(row_data.schema, row_data.tb),
   key |-> row_data_to_json_key(row_data, meta),
   payload |-> row_data_to_json_value(row_data)]

\* sink_dml's dispatch on message_format, lines 35-39
KfRecord(row_data, meta, format) ==
  CASE format.kind = "Avro" -> send_avro(row_data, meta)
    [] format.kind = "Json" -> send_json(row_data, meta)
    [] format.kind = "JsonTemplate" -> send_json_template(row_data, meta, format.template)

\* sink_dml, lines 30-40: an empty batch returns Ok at once
KfSinkDml ==
  /\ kf_pc = "idle"
  /\ \E data \in KfBatches \cup {<<>>} :
       /\ kf_data' = data
       /\ kf_pc' = IF data = <<>> THEN "returned" ELSE "building"
       /\ kf_ret' = IF data = <<>> THEN "ok" ELSE "none"
  /\ UNCHANGED <<message_format, kf_meta, kf_futures, kf_polled, kf_published, kf_results>>

\* one iteration of the first loop (lines 54-76, 103-125, 151-177): the row is
\* encoded and the future that will send it is pushed on `futures`; the
\* future is not polled here, so nothing is handed to the producer yet. An
\* encoder error returns from sink_dml (`?`).
KfBuild(ok) ==
  /\ kf_pc = "building"
  /\ LET row_data == convert_raw_string(kf_data[Len(kf_futures) + 1])
     IN IF ok
        THEN /\ kf_futures' = Append(kf_futures, KfRecord(row_data, kf_meta, message_format))
             /\ kf_pc' = IF Len(kf_futures') = Len(kf_data) THEN "awaiting" ELSE "building"
             /\ kf_ret' = kf_ret
        ELSE /\ kf_futures' = <<>>
             /\ kf_pc' = "returned"
             /\ kf_ret' = "encode_err"
  /\ UNCHANGED <<message_format, kf_meta, kf_data, kf_polled, kf_published, kf_results>>

\* the second loop (lines 80-86) awaits the next future: its first poll runs
\* the async block, which calls producer.send with the timestamp read then
KfPoll(now) ==
  /\ kf_pc = "awaiting"
  /\ kf_polled = Len(kf_results)
  /\ kf_polled < Len(kf_futures)
  /\ kf_polled' = kf_polled + 1
  /\ kf_published' = Append(kf_published,
                            [record |-> kf_futures[kf_polled + 1], timestamp |-> now])
  /\ UNCHANGED <<message_format, kf_meta, kf_pc, kf_data, kf_futures, kf_results, kf_ret>>

\* the delivery result of the awaited future arrives: an Err bails with the
\* producer error (lines 82-84), the last Ok ends sink_dml with Ok
KfResult(ok) ==
  /\ kf_pc = "awaiting"
  /\ kf_polled = Len(kf_results) + 1
  /\ kf_results' = Append(kf_results, IF ok THEN "ok" ELSE "err")
  /\ IF ~ok
     THEN kf_pc' = "returned" /\ kf_ret' = "producer_err"
     ELSE IF Len(kf_results') = Len(kf_futures)
          THEN kf_pc' = "returned" /\ kf_ret' = "ok"
          ELSE kf_pc' = "awaiting" /\ kf_ret' = kf_ret
  /\ UNCHANGED <<message_format, kf_meta, kf_data, kf_futures, kf_polled, kf_published>>

\* the caller of sink_dml has its result
KfReturn ==
  /\ kf_pc = "returned"
  /\ kf_pc' = "idle"
  /\ kf_data' = <<>>
  /\ kf_futures' = <<>>
  /\ kf_polled' = 0
  /\ kf_published' = <<>>
  /\ kf_results' = <<>>
  /\ kf_ret' = "none"
  /\ UNCHANGED <<message_format, kf_meta>>

KafkaInit ==
  /\ message_format \in KfFormats
  /\ kf_meta \in KfMetas
  /\ kf_pc = "idle"
  /\ kf_data = <<>>
  /\ kf_futures = <<>>
  /\ kf_polled = 0
  /\ kf_published = <<>>
  /\ kf_results = <<>>
  /\ kf_ret = "none"

KafkaNext ==
  \/ KfSinkDml /\ KafkaFrame
  \/ \E ok \in BOOLEAN : KfBuild(ok) /\ KafkaFrame
  \/ \E now \in SrClock : KfPoll(now) /\ KafkaFrame
  \/ \E ok \in BOOLEAN : KfResult(ok) /\ KafkaFrame
  \/ KfReturn /\ KafkaFrame

-----------------------------------------------------------------------------
(* C14 as claimed: within one batch every row's publish is handed to the
   producer before the result of any publish is awaited; results are awaited
   in row order and the first failure makes sink_dml return a producer
   error. *)
C14_AllIssuedBeforeAnyAwaited ==
  /\ kf_polled > 0 => Len(kf_published) = Len(kf_data)
  /\ kf_results # <<>> => Len(kf_published) = Len(kf_data)
  /\ \A i \in DOMAIN kf_results : kf_results[i] = "err" =>
       i = Len(kf_results) /\ kf_ret = "producer_err"

(* C14, what the sinker does: the publish of row i is handed to the producer
   only when the second loop starts to await future i, after the results of
   rows 1..i-1 have arrived and were Ok; the first failure makes sink_dml
   return the producer error, and the rows after it are never published. *)
C14_IssuedOneByOne ==
  /\ Len(kf_published) = kf_polled
  /\ Len(kf_published) <= Len(kf_results) + 1
  /\ \A i \in DOMAIN kf_published :
       /\ kf_published[i].record = kf_futures[i]
       /\ \A j \in 1..(i - 1) : kf_results[j] = "ok"
  /\ \A i \in DOMAIN kf_results : kf_results[i] = "err" =>
       i = Len(kf_results) /\ kf_ret = "producer_err"

\* C14: the result of the first row's publish is awaited while the second row
\* has not been handed to the producer
C14_AwaitingBeforeAllIssued ==
  /\ kf_pc = "awaiting" /\ Len(kf_data) = 2
  /\ kf_polled = 1 /\ Len(kf_published) = 1 /\ kf_results = <<>>

(* C15 as claimed: key and value of every published row come from the encoder
   of the configured format: the Avro encoder for Avro, the generic JSON
   encoder for Json, the vendor template encoder (action, entryType, pks,
   before, data) for JsonTemplate(CloudCanal). *)
C15_EncoderOfConfiguredFormat ==
  \A i \in DOMAIN kf_published :
    LET row_data == convert_raw_string(kf_data[i])
        record == kf_published[i].record
    IN CASE message_format.kind = "Avro" ->
              /\ record.key = row_data_to_avro_key(row_data, kf_meta)
              /\ record.payload = row_data_to_avro_value(row_data)
         [] message_format.kind = "Json" ->
              /\ record.key = row_data_to_json_key(row_data, kf_meta)
              /\ record.payload = row_data_to_json_value(row_data)
         [] message_format.kind = "JsonTemplate" /\ message_format.template = "CloudCanal" ->
              /\ record.key = cloudcanal_row_data_to_json_key(row_data, kf_meta)
              /\ \E exec_ts \in SrClock, send_ts \in SrClock :
                   record.payload =
                     cloudcanal_row_data_to_json_value(row_data, kf_meta, exec_ts, send_ts)
         [] OTHER -> TRUE

(* C15, what the sinker does: Avro rows come from the Avro encoder, and rows
   of every other format, JsonTemplate(CloudCanal) included, carry the key
   and the payload of the generic JSON encoder (operation, schema, tb,
   before, after). *)
C15_TemplateUsesGenericJson ==
  \A i \in DOMAIN kf_published :
    LET row_data == convert_raw_string(kf_data[i])
        record == kf_published[i].record
    IN /\ record.topic = get_topic(row_data.schema, row_data.tb)
       /\ IF message_format.kind = "Avro"
          THEN /\ record.key = row_data_to_avro_key(row_data, kf_meta)
               /\ record.payload = row_data_to_avro_value(row_data)
          ELSE /\ record.key = row_data_to_json_key(row_data, kf_meta)
               /\ record.payload = row_data_to_json_value(row_data)
               /\ "operation" \in DOMAIN record.payload.fields
               /\ "action" \notin DOMAIN record.payload.fields

\* C15: a sinker configured with JsonTemplate(CloudCanal) has published a row
C15_CloudCanalRowPublished ==
  /\ message_format = [kind |-> "JsonTemplate", template |-> "CloudCanal"]
  /\ kf_published # <<>>
  /\ kf_ret = "ok"

(***************************************************************************)
(* DdlStatement: split_to_multi, route, route_rename_table, to_sql         *)
(***************************************************************************)

\* a multi statement lists at most MaxElems tables or indexes
MaxElems == 2

\* Option<String>: None is <<>>, Some(s) is <<s>>
None == <<>>

Some(s) == <<s>>

\* schema / database names of a parsed statement; "" is a name left out
DdSchemas == {"", "s1"}

DdTbs == {"t1"}

DdNewSchemas == {"", "s2"}

DdNewTbs == {"t2"}

DdIndexNames == {"i1", "i2"}

\* the part of the statement the parser does not look into
DdUnparsed == {"", "CASCADE"}

DdSchemaTbs == {<<"", "t1">>, <<"s1", "t3">>}

DdNewSchemaTbs == {<<"", "t2">>, <<"s2", "t4">>}

DdLists(S) == UNION {[1..n -> S] : n \in 0..MaxElems}

\* ddl_statement.rs lines 6-39 and the statement structs of lines 277-472:
\* a statement is a record of its variant (kind) and the variant's fields.
\* The structs derive Default and Deserialize and all fields are public, so
\* every value of every field is a statement the operations can be given.
DbStatements ==
  [kind : {"CreateDatabase"}, db : DdSchemas, if_not_exists : BOOLEAN,
   unparsed : DdUnparsed]
  \cup [kind : {"DropDatabase"}, db : DdSchemas, if_exists : BOOLEAN,
        unparsed : DdUnparsed]
  \cup [kind : {"AlterDatabase"}, db : DdSchemas, unparsed : DdUnparsed]
  \cup [kind : {"CreateSchema"}, schema : DdSchemas, if_not_exists : BOOLEAN,
        unparsed : DdUnparsed]
  \cup [kind : {"DropSchema"}, schema : DdSchemas, if_exists : BOOLEAN,
        unparsed : DdUnparsed]
  \cup [kind : {"AlterSchema"}, schema : DdSchemas, unparsed : DdUnparsed]

MysqlTbStatements ==
  [kind : {"MysqlCreateTable"}, db : DdSchemas, tb : DdTbs,
   if_not_exists : BOOLEAN, unparsed : DdUnparsed]
  \cup [kind : {"MysqlAlterTable", "MysqlTruncateTable"}, db : DdSchemas,
        tb : DdTbs, unparsed : DdUnparsed]
  \cup [kind : {"MysqlCreateIndex"}, db : DdSchemas, tb : DdTbs,
        index_name : {"i1"}, index_kind : {None, Some("unique")},
        index_type : {None, Some("btree")}, unparsed : DdUnparsed]
  \cup [kind : {"MysqlDropIndex"}, db : DdSchemas, tb : DdTbs,
        index_name : {"i1"}, unparsed : DdUnparsed]

PgTbStatements ==
  [kind : {"PgCreateTable"}, schema : DdSchemas, tb : DdTbs,
   temporary : {None, Some("TEMPORARY")}, unlogged : {None, Some("UNLOGGED")},
   if_not_exists : BOOLEAN, unparsed : DdUnparsed]
  \cup [kind : {"PgAlterTable"}, schema : DdSchemas, tb : DdTbs,
        if_exists : BOOLEAN, is_only : BOOLEAN, unparsed : DdUnparsed]
  \cup [kind : {"PgTruncateTable"}, schema : DdSchemas, tb : DdTbs,
        is_only : BOOLEAN, unparsed : DdUnparsed]
  \cup [kind : {"PgCreateIndex"}, schema : DdSchemas, tb : DdTbs,
        index_name : {None, Some("i1")}, is_unique : BOOLEAN,
        is_concurrently : BOOLEAN, if_not_exists : BOOLEAN, is_only : BOOLEAN,
        unparsed : DdUnparsed]
  \cup [kind : {"PgAlterTableSetSchema"}, schema : DdSchemas, tb : DdTbs,
        new_schema : DdNewSchemas, new_tb : DdNewTbs, if_exists : BOOLEAN,
        is_only : BOOLEAN, unparsed : DdUnparsed]
  \cup [kind : {"DropTable"}, schema : DdSchemas, tb : DdTbs,
        if_exists : BOOLEAN, unparsed : DdUnparsed]
  \cup [kind : {"PgDropIndex"}, index_name : {"i1"}, if_exists : BOOLEAN,
        is_concurrently : BOOLEAN, unparsed : DdUnparsed]

RenameStatements ==
  [kind : {"MysqlAlterTableRename"}, db : DdSchemas, tb : DdTbs,
   new_db : DdNewSchemas, new_tb : DdNewTbs, unparsed : DdUnparsed]
  \cup [kind : {"PgAlterTableRename"}, schema : DdSchemas, tb : DdTbs,
        new_schema : DdNewSchemas, new_tb : DdNewTbs, if_exists : BOOLEAN,
        is_only : BOOLEAN, unparsed : DdUnparsed]
  \cup [kind : {"RenameTable"}, schema : DdSchemas, tb : DdTbs,
        new_schema : DdNewSchemas, new_tb : DdNewTbs, unparsed : DdUnparsed]

MultiStatements ==
  [kind : {"DropMultiTable"}, schema_tbs : DdLists(DdSchemaTbs),
   if_exists : BOOLEAN, unparsed : DdUnparsed]
  \cup [kind : {"RenameMultiTable"}, schema_tbs : DdLists(DdSchemaTbs),
        new_schema_tbs : DdLists(DdNewSchemaTbs), unparsed : DdUnparsed]
  \cup [kind : {"PgDropMultiIndex"}, index_names : DdLists(DdIndexNames),
        if_exists : BOOLEAN, is_concurrently : BOOLEAN, unparsed : DdUnparsed]

DdlStatements ==
  DbStatements \cup MysqlTbStatements \cup PgTbStatements
  \cup RenameStatements \cup MultiStatements \cup {[kind |-> "Unknown"]}

\* DbType of the to_sql call
DdDbTypes == {"Mysql", "Pg"}

\* split_to_multi indexes new_schema_tbs by the position in schema_tbs (line
\* 59: s.new_schema_tbs[i]), RenameMultiTableStatement::to_sql does the same
\* (line 905); with fewer targets than sources the index is out of bounds
IndexPanics(s) ==
  /\ s.kind = "RenameMultiTable"
  /\ Len(s.new_schema_tbs) < Len(s.schema_tbs)

\* a split_to_multi that never splits
split_to_multi_self(s) == <<s>>

\* split_to_multi, lines 42-86 (defined where IndexPanics(s) is false)
split_to_multi(s) ==
  CASE s.kind = "DropMultiTable" ->
         [i \in 1..Len(s.schema_tbs) |->
            [kind |-> "DropTable", schema |-> s.schema_tbs[i][1],
             tb |-> s.schema_tbs[i][2], if_exists |-> s.if_exists,
             unparsed |-> s.unparsed]]
    [] s.kind = "RenameMultiTable" ->
         [i \in 1..Len(s.schema_tbs) |->
            [kind |-> "RenameTable", schema |-> s.schema_tbs[i][1],
             tb |-> s.schema_tbs[i][2],
             new_schema |-> s.new_schema_tbs[i][1],
             new_tb |-> s.new_schema_tbs[i][2], unparsed |-> s.unparsed]]
    [] s.kind = "PgDropMultiIndex" ->
         [i \in 1..Len(s.index_names) |->
            [kind |-> "PgDropIndex", index_name |-> s.index_names[i],
             if_exists |-> s.if_exists, is_concurrently |-> s.is_concurrently,
             unparsed |-> s.unparsed]]
    [] OTHER -> <<s>>

\* the variants whose database is the field `db` (the others name it `schema`)
DbFieldKinds ==
  {"CreateDatabase", "DropDatabase", "AlterDatabase", "MysqlCreateTable",
   "MysqlAlterTable", "MysqlAlterTableRename", "MysqlTruncateTable",
   "MysqlCreateIndex", "MysqlDropIndex"}

\* the variants route_rename_table rewrites, lines 141-173
RenameKinds == {"MysqlAlterTableRename", "PgAlterTableRename", "RenameTable"}

\* the variants route rewrites without looking at the old name, lines 179-198
RouteDbKinds ==
  {"CreateDatabase", "DropDatabase", "AlterDatabase", "CreateSchema",
   "DropSchema", "AlterSchema"}

\* the variants route rewrites under the emptiness rule, lines 200-261
RouteTbKinds ==
  {"MysqlCreateTable", "MysqlAlterTable", "MysqlTruncateTable",
   "MysqlCreateIndex", "MysqlDropIndex", "PgCreateTable", "PgAlterTable",
   "PgTruncateTable", "PgCreateIndex", "DropTable"}

\* a rule that replaces the name whether or not it is empty
RouteSchemaAlways(schema, dst_schema) == dst_schema

\* `if !s.schema.is_empty() { s.schema = dst_schema; }`, e.g. lines 201-203
RouteSchema(schema, dst_schema) == IF schema # "" THEN dst_schema ELSE schema

\* route_rename_table, lines 133-176
route_rename_table(s, dst_schema, dst_tb, dst_new_schema, dst_new_tb) ==
  CASE s.kind = "MysqlAlterTableRename" ->
         [s EXCEPT !.db = RouteSchema(s.db, dst_schema),
                   !.new_db = RouteSchema(s.new_db, dst_new_schema),
                   !.tb = dst_tb,
                   !.new_tb = dst_new_tb]
    [] s.kind \in {"PgAlterTableRename", "RenameTable"} ->
         [s EXCEPT !.schema = RouteSchema(s.schema, dst_schema),
                   !.new_schema = RouteSchema(s.new_schema, dst_new_schema),
                   !.tb = dst_tb,
                   !.new_tb = dst_new_tb]
    [] OTHER -> s

\* route that keeps the old table name
route_schema_only(s, dst_schema, dst_tb) ==
  CASE s.kind \in RouteDbKinds /\ s.kind \in DbFieldKinds ->
         [s EXCEPT !.db = dst_schema]
    [] s.kind \in RouteDbKinds /\ s.kind \notin DbFieldKinds ->
         [s EXCEPT !.schema = dst_schema]
    [] s.kind \in RouteTbKinds /\ s.kind \in DbFieldKinds ->
         [s EXCEPT !.db = RouteSchema(s.db, dst_schema)]
    [] s.kind \in RouteTbKinds /\ s.kind \notin DbFieldKinds ->
         [s EXCEPT !.schema = RouteSchema(s.schema, dst_schema)]
    [] OTHER -> s

\* route that also rewrites the rename variants
route_with_rename(s, dst_schema, dst_tb) ==
  CASE s.kind \in RouteDbKinds /\ s.kind \in DbFieldKinds ->
         [s EXCEPT !.db = dst_schema]
    [] s.kind \in RouteDbKinds /\ s.kind \notin DbFieldKinds ->
         [s EXCEPT !.schema = dst_schema]
    [] s.kind \in RouteTbKinds /\ s.kind \in DbFieldKinds ->
         [s EXCEPT !.db = RouteSchema(s.db, dst_schema), !.tb = dst_tb]
    [] s.kind \in RouteTbKinds /\ s.kind \notin DbFieldKinds ->
         [s EXCEPT !.schema = RouteSchema(s.schema, dst_schema), !.tb = dst_tb]
    [] s.kind = "MysqlAlterTableRename" ->
         [s EXCEPT !.db = RouteSchema(s.db, dst_schema), !.tb = dst_tb]
    [] s.kind \in {"PgAlterTableRename", "RenameTable"} ->
         [s EXCEPT !.schema = RouteSchema(s.schema, dst_schema), !.tb = dst_tb]
    [] OTHER -> s

\* route, lines 178-274.  Database and schema statements take dst_schema
\* whatever the old name was (lines 179-198); table statements replace a
\* non-empty database/schema and always the table (lines 200-261); the
\* variants of lines 263-273 are not routed.
route(s, dst_schema, dst_tb) ==
  CASE s.kind \in RouteDbKinds /\ s.kind \in DbFieldKinds ->
         [s EXCEPT !.db = dst_schema]
    [] s.kind \in RouteDbKinds /\ s.kind \notin DbFieldKinds ->
         [s EXCEPT !.schema = dst_schema]
    [] s.kind \in RouteTbKinds /\ s.kind \in DbFieldKinds ->
         [s EXCEPT !.db = RouteSchema(s.db, dst_schema), !.tb = dst_tb]
    [] s.kind \in RouteTbKinds /\ s.kind \notin DbFieldKinds ->
         [s EXCEPT !.schema = RouteSchema(s.schema, dst_schema), !.tb = dst_tb]
    [] OTHER -> s

\* SqlUtil::get_escape_pairs, the escape pair of a dialect: the grave accent
\* for Mysql, the double quote for Pg.  A TLA+ string cannot hold a grave
\* accent; "~" stands for it.
get_escape_pairs(db_type) ==
  IF db_type = "Mysql" THEN <<"~", "~">> ELSE <<"\"", "\"">>

\* SqlUtil::escape_by_db_type: the identifier between the dialect's escape pair
escape_by_db_type(identifier, db_type) ==
  get_escape_pairs(db_type)[1] \o identifier \o get_escape_pairs(db_type)[2]

\* escape_identifier, lines 975-977
escape_identifier(identifier, db_type) == escape_by_db_type(identifier, db_type)

\* A SQL text is the sequence of the pieces format! puts together; the
\* string is their concatenation.  `format!("{} KW", sql)`:
AppendKw(sql, kw) == sql \o <<" ", kw>>

\* `if flag { sql = format!("{} KW", sql); }`
AppendIf(sql, flag, kw) == IF flag THEN AppendKw(sql, kw) ELSE sql

\* append_tb, lines 936-944
append_tb(sql, schema, tb, db_type) ==
  IF schema = ""
  THEN sql \o <<" ", escape_identifier(tb, db_type)>>
  ELSE sql \o <<" ", escape_identifier(schema, db_type), ".",
                escape_identifier(tb, db_type)>>

\* append_opt_str, lines 946-952
append_opt_str(sql, opt_str) ==
  IF opt_str # None THEN sql \o <<" ", opt_str[1]>> ELSE sql

\* append_identifier, lines 954-966
append_identifier(sql, identifier, with_white_space, db_type) ==
  IF with_white_space
  THEN sql \o <<" ", escape_identifier(identifier, db_type)>>
  ELSE sql \o <<escape_identifier(identifier, db_type)>>

\* append_unparsed, lines 968-973
append_unparsed(sql, unparsed) ==
  IF unparsed # "" THEN sql \o <<" ", unparsed>> ELSE sql

\* str::to_uppercase on the index kinds and types of the statements above
to_uppercase(s) ==
  CASE s = "unique" -> "UNIQUE"
    [] s = "btree" -> "BTREE"
    [] OTHER -> s

\* the loop of DropMultiTableStatement::to_sql, lines 894-896
RECURSIVE AppendTbs(_, _, _)
AppendTbs(sql, schema_tbs, db_type) ==
  IF schema_tbs = <<>> THEN sql
  ELSE AppendTbs(append_tb(sql, schema_tbs[1][1], schema_tbs[1][2], db_type),
                 Tail(schema_tbs), db_type)

\* DropMultiTableStatement::to_sql, lines 888-898
DropMultiTable_to_sql(s, db_type) ==
  LET sql == AppendIf(<<"DROP TABLE">>, s.if_exists, "IF EXISTS")
  IN  append_unparsed(AppendTbs(sql, s.schema_tbs, db_type), s.unparsed)

\* the loop of RenameMultiTableStatement::to_sql from element i, lines 904-912
RECURSIVE AppendRenames(_, _, _, _)
AppendRenames(sql, s, i, db_type) ==
  IF i > Len(s.schema_tbs) THEN sql
  ELSE LET src == append_tb(sql, s.schema_tbs[i][1], s.schema_tbs[i][2], db_type)
           dst == append_tb(AppendKw(src, "TO"), s.new_schema_tbs[i][1],
                            s.new_schema_tbs[i][2], db_type)
           sep == IF i < Len(s.schema_tbs) THEN dst \o <<",">> ELSE dst
       IN  AppendRenames(sep, s, i + 1, db_type)

\* RenameMultiTableStatement::to_sql, lines 902-914: returns `sql`, the
\* unparsed tail is not appended (defined where IndexPanics(s) is false)
RenameMultiTable_to_sql(s, db_type) ==
  AppendRenames(<<"RENAME TABLE">>, s, 1, db_type)

\* the loop of PgDropMultiIndexStatement::to_sql from element i, lines 926-931
RECURSIVE AppendIndexNames(_, _, _, _)
AppendIndexNames(sql, index_names, i, db_type) ==
  IF i > Len(index_names) THEN sql
  ELSE LET name == append_identifier(sql, index_names[i], TRUE, db_type)
           sep == IF i < Len(index_names) THEN name \o <<",">> ELSE name
       IN  AppendIndexNames(sep, index_names, i + 1, db_type)

\* PgDropMultiIndexStatement::to_sql, lines 918-933
PgDropMultiIndex_to_sql(s, db_type) ==
  LET sql == AppendIf(AppendIf(<<"DROP INDEX">>, s.is_concurrently, "CONCURRENTLY"),
                      s.if_exists, "IF EXISTS")
  IN  append_unparsed(AppendIndexNames(sql, s.index_names, 1, db_type), s.unparsed)

\* DdlStatement::to_sql, lines 475-697
to_sql(s, db_type) ==
  CASE s.kind = "CreateDatabase" ->
         append_unparsed(
           append_identifier(
             AppendIf(<<"CREATE DATABASE">>, s.if_not_exists, "IF NOT EXISTS"),
             s.db, TRUE, db_type), s.unparsed)
    [] s.kind = "DropDatabase" ->
         append_unparsed(
           append_identifier(
             AppendIf(<<"DROP DATABASE">>, s.if_exists, "IF EXISTS"),
             s.db, TRUE, db_type), s.unparsed)
    [] s.kind = "AlterDatabase" ->
         append_unparsed(
           append_identifier(<<"ALTER DATABASE">>, s.db, TRUE, db_type), s.unparsed)
    [] s.kind = "CreateSchema" ->
         append_unparsed(
           append_identifier(
             AppendIf(<<"CREATE SCHEMA">>, s.if_not_exists, "IF NOT EXISTS"),
             s.schema, TRUE, db_type), s.unparsed)
    [] s.kind = "DropSchema" ->
         append_unparsed(
           append_identifier(
             AppendIf(<<"DROP SCHEMA">>, s.if_exists, "IF EXISTS"),
             s.schema, TRUE, db_type), s.unparsed)
    [] s.kind = "AlterSchema" ->
         append_unparsed(
           append_identifier(<<"ALTER SCHEMA">>, s.schema, TRUE, db_type),
           s.unparsed)
    [] s.kind = "MysqlCreateTable" ->
         append_unparsed(
           append_tb(AppendIf(<<"CREATE TABLE">>, s.if_not_exists, "IF NOT EXISTS"),
                     s.db, s.tb, db_type), s.unparsed)
    [] s.kind = "PgCreateTable" ->
         LET opts == append_opt_str(append_opt_str(<<"CREATE">>, s.temporary),
                                    s.unlogged)
             sql == AppendIf(AppendKw(opts, "TABLE"), s.if_not_exists,
                             "IF NOT EXISTS")
         IN  append_unparsed(append_tb(sql, s.schema, s.tb, db_type), s.unparsed)
    [] s.kind = "DropMultiTable" -> DropMultiTable_to_sql(s, db_type)
    [] s.kind = "DropTable" ->
         DropMultiTable_to_sql(
           [kind |-> "DropMultiTable", if_exists |-> s.if_exists,
            schema_tbs |-> <<<<s.schema, s.tb>>>>, unparsed |-> s.unparsed],
           db_type)
    [] s.kind = "MysqlTruncateTable" ->
         append_unparsed(append_tb(<<"TRUNCATE TABLE">>, s.db, s.tb, db_type),
                         s.unparsed)
    [] s.kind = "PgTruncateTable" ->
         append_unparsed(
           append_tb(AppendIf(<<"TRUNCATE TABLE">>, s.is_only, "ONLY"),
                     s.schema, s.tb, db_type), s.unparsed)
    [] s.kind = "MysqlAlterTable" ->
         append_unparsed(append_tb(<<"ALTER TABLE">>, s.db, s.tb, db_type),
                         s.unparsed)
    [] s.kind = "MysqlAlterTableRename" ->
         LET sql == AppendKw(append_tb(<<"ALTER TABLE">>, s.db, s.tb, db_type),
                             "RENAME TO")
         IN  append_unparsed(append_tb(sql, s.new_db, s.new_tb, db_type),
                             s.unparsed)
    [] s.kind = "PgAlterTable" ->
         LET sql == AppendIf(AppendIf(<<"ALTER TABLE">>, s.if_exists, "IF EXISTS"),
                             s.is_only, "ONLY")
         IN  append_unparsed(append_tb(sql, s.schema, s.tb, db_type), s.unparsed)
    [] s.kind = "PgAlterTableRename" ->
         LET head == AppendIf(AppendIf(<<"ALTER TABLE">>, s.if_exists, "IF EXISTS"),
                              s.is_only, "ONLY")
             sql == AppendKw(append_tb(head, s.schema, s.tb, db_type), "RENAME TO")
         IN  append_unparsed(append_tb(sql, s.new_schema, s.new_tb, db_type),
                             s.unparsed)
    [] s.kind = "PgAlterTableSetSchema" ->
         LET head == AppendIf(AppendIf(<<"ALTER TABLE">>, s.if_exists, "IF EXISTS"),
                              s.is_only, "ONLY")
             sql == AppendKw(append_tb(head, s.schema, s.tb, db_type), "SET SCHEMA")
         IN  append_unparsed(append_identifier(sql, s.new_schema, TRUE, db_type),
                             s.unparsed)
    [] s.kind = "RenameMultiTable" -> RenameMultiTable_to_sql(s, db_type)
    [] s.kind = "RenameTable" ->
         RenameMultiTable_to_sql(
           [kind |-> "RenameMultiTable", schema_tbs |-> <<<<s.schema, s.tb>>>>,
            new_schema_tbs |-> <<<<s.new_schema, s.new_tb>>>>,
            unparsed |-> s.unparsed],
           db_type)
    [] s.kind = "MysqlCreateIndex" ->
         LET kind == IF s.index_kind # None
                     THEN AppendKw(<<"CREATE">>, to_uppercase(s.index_kind[1]))
                     ELSE <<"CREATE">>
             name == append_identifier(AppendKw(kind, "INDEX"), s.index_name, TRUE,
                                       db_type)
             type == IF s.index_type # None
                     THEN name \o <<" ", "USING", " ", to_uppercase(s.index_type[1])>>
                     ELSE name
         IN  append_unparsed(append_tb(AppendKw(type, "ON"), s.db, s.tb, db_type),
                             s.unparsed)
    [] s.kind = "PgCreateIndex" ->
         LET head == AppendIf(
                       AppendIf(
                         AppendKw(AppendIf(<<"CREATE">>, s.is_unique, "UNIQUE"),
                                  "INDEX"),
                         s.is_concurrently, "CONCURRENTLY"),
                       s.if_not_exists, "IF NOT EXISTS")
             name == IF s.index_name # None
                     THEN append_identifier(head, s.index_name[1], TRUE, db_type)
                     ELSE head
             sql == AppendIf(AppendKw(name, "ON"), s.is_only, "ONLY")
         IN  append_unparsed(append_tb(sql, s.schema, s.tb, db_type), s.unparsed)
    [] s.kind = "MysqlDropIndex" ->
         LET sql == AppendKw(append_identifier(<<"DROP INDEX">>, s.index_name, TRUE,
                                               db_type), "ON")
         IN  append_unparsed(append_tb(sql, s.db, s.tb, db_type), s.unparsed)
    [] s.kind = "PgDropMultiIndex" -> PgDropMultiIndex_to_sql(s, db_type)
    [] s.kind = "PgDropIndex" ->
         PgDropMultiIndex_to_sql(
           [kind |-> "PgDropMultiIndex", if_exists |-> s.if_exists,
            is_concurrently |-> s.is_concurrently, unparsed |-> s.unparsed,
            index_names |-> <<s.index_name>>],
           db_type)
    [] OTHER -> <<>>

\* ---- the calls

\* destinations of the routing calls
DdDstSchemas == {"d1"}

DdDstTbs == {"dt1"}

DdDstNewSchemas == {"d2"}

DdDstNewTbs == {"dt2"}

\* route(dst_schema, dst_tb) on a parsed statement
DdRoute(dst_schema, dst_tb) ==
  /\ dd_pc = "ready"
  /\ dd_prev' = dd_stmt
  /\ dd_stmt' = route(dd_stmt, dst_schema, dst_tb)
  /\ dd_via' = "route"
  /\ dd_op' = "route"
  /\ dd_dst' = <<dst_schema, dst_tb>>
  /\ dd_pc' = "routed"
  /\ UNCHANGED <<dd_db_type, dd_split, dd_sql>>

\* route_rename_table(dst_schema, dst_tb, dst_new_schema, dst_new_tb)
DdRouteRenameTable(dst_schema, dst_tb, dst_new_schema, dst_new_tb) ==
  /\ dd_pc = "ready"
  /\ dd_prev' = dd_stmt
  /\ dd_stmt' = route_rename_table(dd_stmt, dst_schema, dst_tb, dst_new_schema,
                                   dst_new_tb)
  /\ dd_via' = "route_rename_table"
  /\ dd_op' = "route_rename_table"
  /\ dd_dst' = <<dst_schema, dst_tb, dst_new_schema, dst_new_tb>>
  /\ dd_pc' = "routed"
  /\ UNCHANGED <<dd_db_type, dd_split, dd_sql>>

\* split_to_multi(self)
DdSplitToMulti ==
  /\ dd_pc \in {"ready", "routed"}
  /\ dd_op' = "split_to_multi"
  /\ IF IndexPanics(dd_stmt)
     THEN dd_pc' = "panic" /\ dd_split' = <<>>
     ELSE dd_pc' = "done" /\ dd_split' = split_to_multi(dd_stmt)
  /\ UNCHANGED <<dd_stmt, dd_prev, dd_via, dd_dst, dd_db_type, dd_sql>>

\* to_sql(&self, db_type)
DdToSql(db_type) ==
  /\ dd_pc \in {"ready", "routed"}
  /\ dd_op' = "to_sql"
  /\ dd_db_type' = db_type
  /\ IF IndexPanics(dd_stmt)
     THEN dd_pc' = "panic" /\ dd_sql' = <<>>
     ELSE dd_pc' = "done" /\ dd_sql' = to_sql(dd_stmt, db_type)
  /\ UNCHANGED <<dd_stmt, dd_prev, dd_via, dd_dst, dd_split>>

DdlInit ==
  /\ dd_stmt \in DdlStatements
  /\ dd_prev = dd_stmt
  /\ dd_pc = "ready"
  /\ dd_via = "none"
  /\ dd_dst = <<>>
  /\ dd_op = "none"
  /\ dd_db_type = "Mysql"
  /\ dd_split = <<>>
  /\ dd_sql = <<>>

DdlNext ==
  \/ (\E dst_schema \in DdDstSchemas, dst_tb \in DdDstTbs :
        DdRoute(dst_schema, dst_tb)) /\ DdlFrame
  \/ (\E dst_schema \in DdDstSchemas, dst_tb \in DdDstTbs,
         dst_new_schema \in DdDstNewSchemas, dst_new_tb \in DdDstNewTbs :
        DdRouteRenameTable(dst_schema, dst_tb, dst_new_schema, dst_new_tb))
     /\ DdlFrame
  \/ DdSplitToMulti /\ DdlFrame
  \/ (\E db_type \in DdDbTypes : DdToSql(db_type)) /\ DdlFrame

\* ---- Claims on DdlStatement

\* the database / schema field of a statement that has one
SchemaOf(s) == IF s.kind \in DbFieldKinds THEN s.db ELSE s.schema

\* the statements agree on every field outside `fields`
SameExcept(a, b, fields) ==
  /\ DOMAIN a = DOMAIN b
  /\ \A f \in DOMAIN a \ fields : a[f] = b[f]

\* C16 (as stated): route(dst_schema, dst_tb) on every variant it rewrites
\* turns a non-empty schema/db field into dst_schema, leaves an empty one
\* empty, turns the table field (if any) into dst_tb and leaves the flags and
\* the unparsed tail as they were.
C16_RouteEmptinessRuleEveryVariant ==
  (dd_op = "route" /\ dd_prev.kind \in RouteDbKinds \cup RouteTbKinds) =>
    /\ SchemaOf(dd_prev) # "" => SchemaOf(dd_stmt) = dd_dst[1]
    /\ SchemaOf(dd_prev) = "" => SchemaOf(dd_stmt) = ""
    /\ "tb" \in DOMAIN dd_prev => dd_stmt.tb = dd_dst[2]
    /\ SameExcept(dd_prev, dd_stmt, {"db", "schema", "tb"})

\* C16 (amended): route on a table, index or truncate statement turns a
\* non-empty schema/db field into dst_schema, leaves an empty one empty and
\* turns the table field into dst_tb; on a database or schema statement the
\* db/schema field becomes dst_schema whether or not it was empty; the flags
\* and the unparsed tail are unchanged in both cases.
C16_RouteTableRuleAndDatabaseRule ==
  (dd_op = "route" /\ dd_prev.kind \in RouteDbKinds \cup RouteTbKinds) =>
    /\ dd_stmt.kind = dd_prev.kind
    /\ dd_prev.kind \in RouteTbKinds =>
         /\ SchemaOf(dd_prev) # "" => SchemaOf(dd_stmt) = dd_dst[1]
         /\ SchemaOf(dd_prev) = "" => SchemaOf(dd_stmt) = ""
         /\ dd_stmt.tb = dd_dst[2]
    /\ dd_prev.kind \in RouteDbKinds =>
         /\ SchemaOf(dd_stmt) = dd_dst[1]
         /\ "tb" \notin DOMAIN dd_stmt
    /\ SameExcept(dd_prev, dd_stmt, {"db", "schema", "tb"})

\* C16: a schema statement with an empty name has been routed with a flag
\* set and an unparsed tail
C16_EmptySchemaStatementRouted ==
  /\ dd_op = "route"
  /\ dd_prev.kind = "CreateSchema"
  /\ dd_prev.schema = ""
  /\ dd_prev.if_not_exists
  /\ dd_prev.unparsed # ""
  /\ dd_stmt.schema = "d1"

\* the target database / schema field of a rename statement
NewSchemaOf(s) == IF s.kind = "MysqlAlterTableRename" THEN s.new_db ELSE s.new_schema

\* C17: route leaves RenameTable, MysqlAlterTableRename and PgAlterTableRename
\* as they were; route_rename_table rewrites the source pair and the target
\* pair of those variants by one rule (a non-empty schema is replaced, an
\* empty schema stays empty, the table name is always replaced), keeps their
\* flags and unparsed tail, and leaves every other variant as it was.
C17_RenameRouting ==
  /\ (dd_op = "route" /\ dd_prev.kind \in RenameKinds) => dd_stmt = dd_prev
  /\ (dd_op = "route_rename_table" /\ dd_prev.kind \notin RenameKinds) =>
       dd_stmt = dd_prev
  /\ (dd_op = "route_rename_table" /\ dd_prev.kind \in RenameKinds) =>
       /\ SchemaOf(dd_stmt) =
            (IF SchemaOf(dd_prev) = "" THEN "" ELSE dd_dst[1])
       /\ dd_stmt.tb = dd_dst[2]
       /\ NewSchemaOf(dd_stmt) =
            (IF NewSchemaOf(dd_prev) = "" THEN "" ELSE dd_dst[3])
       /\ dd_stmt.new_tb = dd_dst[4]
       /\ SameExcept(dd_prev, dd_stmt,
                     {"db", "schema", "tb", "new_db", "new_schema", "new_tb"})

\* C17: route_rename_table has rewritten a rename statement whose source
\* schema is empty and whose target schema is not
C17_RenameRouted ==
  /\ dd_op = "route_rename_table"
  /\ dd_prev.kind = "PgAlterTableRename"
  /\ dd_prev.schema = "" /\ dd_prev.new_schema # ""
  /\ dd_stmt.schema = "" /\ dd_stmt.new_schema = "d2"
  /\ dd_stmt.tb = "dt1" /\ dd_stmt.new_tb = "dt2"

\* C18: split_to_multi of a DropMultiTable, a RenameMultiTable or a
\* PgDropMultiIndex with n elements is the list of n DropTable, RenameTable or
\* PgDropIndex statements, the i-th one with the i-th identifiers and with the
\* flags and the unparsed tail of the multi statement; split_to_multi of any
\* other variant is the one-element list holding the statement itself.
C18_SplitToMulti ==
  (dd_op = "split_to_multi" /\ dd_pc = "done") =>
    /\ dd_stmt.kind = "DropMultiTable" =>
         /\ Len(dd_split) = Len(dd_stmt.schema_tbs)
         /\ \A i \in 1..Len(dd_split) :
              dd_split[i] =
                [kind |-> "DropTable", schema |-> dd_stmt.schema_tbs[i][1],
                 tb |-> dd_stmt.schema_tbs[i][2],
                 if_exists |-> dd_stmt.if_exists, unparsed |-> dd_stmt.unparsed]
    /\ (/\ dd_stmt.kind = "RenameMultiTable"
        /\ Len(dd_stmt.schema_tbs) = Len(dd_stmt.new_schema_tbs)) =>
         /\ Len(dd_split) = Len(dd_stmt.schema_tbs)
         /\ \A i \in 1..Len(dd_split) :
              dd_split[i] =
                [kind |-> "RenameTable", schema |-> dd_stmt.schema_tbs[i][1],
                 tb |-> dd_stmt.schema_tbs[i][2],
                 new_schema |-> dd_stmt.new_schema_tbs[i][1],
                 new_tb |-> dd_stmt.new_schema_tbs[i][2],
                 unparsed |-> dd_stmt.unparsed]
    /\ dd_stmt.kind = "PgDropMultiIndex" =>
         /\ Len(dd_split) = Len(dd_stmt.index_names)
         /\ \A i \in 1..Len(dd_split) :
              dd_split[i] =
                [kind |-> "PgDropIndex", index_name |-> dd_stmt.index_names[i],
                 if_exists |-> dd_stmt.if_exists,
                 is_concurrently |-> dd_stmt.is_concurrently,
                 unparsed |-> dd_stmt.unparsed]
    /\ dd_stmt.kind \notin {"DropMultiTable", "RenameMultiTable", "PgDropMultiIndex"} =>
         dd_split = <<dd_stmt>>

\* C18: a RenameMultiTable of two different renames with an unparsed tail has
\* been split in two
C18_TwoRenamesSplit ==
  /\ dd_op = "split_to_multi"
  /\ dd_pc = "done"
  /\ dd_stmt.kind = "RenameMultiTable"
  /\ Len(dd_stmt.schema_tbs) = 2
  /\ Len(dd_stmt.new_schema_tbs) = 2
  /\ dd_stmt.schema_tbs[1] # dd_stmt.schema_tbs[2]
  /\ dd_stmt.new_schema_tbs[1] # dd_stmt.new_schema_tbs[2]
  /\ dd_stmt.unparsed # ""
  /\ Len(dd_split) = 2

\* the statement with its unparsed tail taken away
WithoutUnparsed(s) == [s EXCEPT !.unparsed = ""]

\* the SQL is `base` followed by one space and the tail when the tail is not
\* empty, and `base` with nothing after it when the tail is empty
TailAppended(sql, base, unparsed) ==
  IF unparsed # ""
  THEN /\ sql = base \o <<" ", unparsed>>
       /\ Last(base) # " "
  ELSE /\ sql = base
       /\ Last(sql) \notin {" ", ""}

\* C19 (as stated): to_sql of every variant other than Unknown ends with a
\* single space and the unparsed tail, verbatim, when the tail is not empty,
\* and appends nothing when the tail is empty.
C19_UnparsedTailAppendedEveryVariant ==
  (dd_op = "to_sql" /\ dd_pc = "done" /\ dd_stmt.kind # "Unknown") =>
    TailAppended(dd_sql, to_sql(WithoutUnparsed(dd_stmt), dd_db_type),
                 dd_stmt.unparsed)

\* C19 (what the code does): to_sql of every variant other than Unknown,
\* RenameTable and RenameMultiTable ends with a single space and the unparsed
\* tail when the tail is not empty and appends nothing when it is empty;
\* to_sql of a RenameTable or RenameMultiTable is the same text with and
\* without an unparsed tail.
C19_UnparsedTailAppendedButForRename ==
  (dd_op = "to_sql" /\ dd_pc = "done" /\ dd_stmt.kind # "Unknown") =>
    IF dd_stmt.kind \in {"RenameTable", "RenameMultiTable"}
    THEN /\ dd_sql = to_sql(WithoutUnparsed(dd_stmt), dd_db_type)
         /\ dd_stmt.unparsed # "" => dd_stmt.unparsed \notin Range(dd_sql)
    ELSE TailAppended(dd_sql, to_sql(WithoutUnparsed(dd_stmt), dd_db_type),
                      dd_stmt.unparsed)

\* C19: to_sql of a RenameTable with an unparsed tail has produced a text
\* that does not hold the tail
C19_RenameTailDropped ==
  /\ dd_op = "to_sql"
  /\ dd_pc = "done"
  /\ dd_stmt.kind = "RenameTable"
  /\ dd_stmt.unparsed # ""
  /\ Last(dd_sql) # dd_stmt.unparsed

\* the number of pieces of the text that are `piece`
Count(sql, piece) == Cardinality({i \in 1..Len(sql) : sql[i] = piece})

\* the pieces append_tb writes for the table of statement s
TbPieces(s, db_type) ==
  {escape_identifier(SchemaOf(s), db_type), ".", escape_identifier(s.tb, db_type)}

\* the text without the pieces that name the table of statement s
RECURSIVE Rest(_, _)
Rest(sql, pieces) ==
  IF sql = <<>> THEN <<>>
  ELSE IF Head(sql) \in pieces THEN Rest(Tail(sql), pieces)
       ELSE <<Head(sql)>> \o Rest(Tail(sql), pieces)

Diff(a, b) == {i \in 1..Len(a) : a[i] # b[i]}

EnClock == {0, 1}

\* JsonConverter::row_data_to_json_key(&row_data): Ok(key)
EnJsonKey ==
  /\ en_pc = "ready"
  /\ en_op' = "json_key"
  /\ en_out' = [ok |-> TRUE, v |-> row_data_to_json_key(en_row, en_meta)]
  /\ en_pc' = "done"
  /\ UNCHANGED <<en_row, en_meta>>

\* CloudCanalConverter::row_data_to_json_key(&row_data): Ok(key)
EnCloudCanalKey ==
  /\ en_pc = "ready"
  /\ en_op' = "cloudcanal_key"
  /\ en_out' = [ok |-> TRUE, v |-> cloudcanal_row_data_to_json_key(en_row, en_meta)]
  /\ en_pc' = "done"
  /\ UNCHANGED <<en_row, en_meta>>

\* CloudCanalConverter::row_data_to_json_value(row_data): Ok(payload)
EnCloudCanalValue(exec_ts, send_ts) ==
  /\ en_pc = "ready"
  /\ en_op' = "cloudcanal_value"
  /\ en_out' = [ok |-> TRUE,
                v |-> cloudcanal_row_data_to_json_value(en_row, en_meta, exec_ts,
                                                        send_ts)]
  /\ en_pc' = "done"
  /\ UNCHANGED <<en_row, en_meta>>

EncInit ==
  /\ en_pc = "ready"
  /\ en_row \in KfRowData
  /\ en_meta \in KfMetas
  /\ en_op = "none"
  /\ en_out = <<>>

EncNext ==
  \/ EnJsonKey /\ EncFrame
  \/ EnCloudCanalKey /\ EncFrame
  \/ (\E exec_ts \in EnClock, send_ts \in EnClock :
        exec_ts <= send_ts /\ EnCloudCanalValue(exec_ts, send_ts)) /\ EncFrame

\* the table meta is there and has a primary key
HasPrimaryKey(meta) == meta.manager # "none" /\ meta.lookup_ok /\ meta.has_pk

\* the image that holds the row's values: the post-image, or the pre-image
\* of a Delete
RowImage(row_data) ==
  IF row_data.after # <<>> THEN row_data.after[1] ELSE row_data.before[1]

\* C23 (as stated): for an Insert, Update or Delete row whose table meta has
\* a primary key the key is the JSON array with one value per primary-key
\* column, in key order; without a meta manager, with a failed lookup or
\* without a primary key it is "{schema}_{table}"; no error is returned.
C23_KeyHoldsEveryPrimaryKeyColumn ==
  (en_pc = "done" /\ en_op \in {"json_key", "cloudcanal_key"}) =>
    /\ en_out.ok
    /\ IF HasPrimaryKey(en_meta)
       THEN /\ en_out.v.t = "array"
            /\ Len(en_out.v.elems) = Len(KfPrimaryKey)
            /\ \A i \in 1..Len(KfPrimaryKey) :
                 en_out.v.elems[i] =
                   (IF en_op = "json_key"
                    THEN json_col_value_to_json_value(RowImage(en_row)[KfPrimaryKey[i]])
                    ELSE cloudcanal_col_value_to_json_value(
                           RowImage(en_row)[KfPrimaryKey[i]]))
       ELSE en_out.v = JsonString(en_row.schema \o "_" \o en_row.tb)

\* C23 (what the code does): the key of an Insert or Update row whose table
\* meta has a primary key is the JSON array of the primary-key values of its
\* post-image, in key order; the key of a Delete row with a primary key is
\* the empty JSON array; without a usable primary key the key is
\* "{schema}_{table}"; no error is returned.
C23_KeyFromPostImageOnly ==
  (en_pc = "done" /\ en_op \in {"json_key", "cloudcanal_key"}) =>
    /\ en_out.ok
    /\ IF HasPrimaryKey(en_meta)
       THEN /\ en_out.v.t = "array"
            /\ IF en_row.row_type = "Delete"
               THEN en_out.v.elems = <<>>
               ELSE /\ Len(en_out.v.elems) = Len(KfPrimaryKey)
                    /\ \A i \in 1..Len(KfPrimaryKey) :
                         en_out.v.elems[i] =
                           (IF en_op = "json_key"
                            THEN json_col_value_to_json_value(
                                   en_row.after[1][KfPrimaryKey[i]])
                            ELSE cloudcanal_col_value_to_json_value(
                                   en_row.after[1][KfPrimaryKey[i]]))
       ELSE en_out.v = JsonString(en_row.schema \o "_" \o en_row.tb)

\* C23: the key of a Delete row of a table with a primary key has been
\* computed and is the empty array
C23_DeleteKeyEmpty ==
  /\ en_pc = "done"
  /\ en_op = "json_key"
  /\ en_row.row_type = "Delete"
  /\ HasPrimaryKey(en_meta)
  /\ en_out.v = JsonArray(<<>>)

\* C24 (as stated): the vendor payload of every row, with or without table
\* meta, has `before` and `data` as arrays (one element when the image
\* exists, empty when it does not) and has `pks`, `dbValType` and `jdbcType`.
C24_PayloadAlwaysHasImagesAndTypes ==
  (en_pc = "done" /\ en_op = "cloudcanal_value") =>
    LET fields == en_out.v.fields
    IN  /\ {"before", "data", "pks", "dbValType", "jdbcType"} \subseteq DOMAIN fields
        /\ fields["before"].t = "array"
        /\ Len(fields["before"].elems) = Len(en_row.before)
        /\ fields["data"].t = "array"
        /\ Len(fields["data"].elems) = Len(en_row.after)

\* C24 (what the code does): the vendor payload always has `pks`; it has
\* `before` (`data`) exactly when the row has a pre-image (post-image), as a
\* one-element array; it has `dbValType` and `jdbcType` exactly when the
\* converter has a meta manager and the meta lookup succeeds.
C24_PayloadFieldsFollowImagesAndMeta ==
  (en_pc = "done" /\ en_op = "cloudcanal_value") =>
    LET fields == en_out.v.fields
    IN  /\ "pks" \in DOMAIN fields
        /\ fields["pks"].t = "array"
        /\ "before" \in DOMAIN fields <=> en_row.before # <<>>
        /\ "before" \in DOMAIN fields =>
             fields["before"] =
               JsonArray(<<cloudcanal_col_values_to_json_value(en_row.before[1])>>)
        /\ "data" \in DOMAIN fields <=> en_row.after # <<>>
        /\ "data" \in DOMAIN fields =>
             fields["data"] =
               JsonArray(<<cloudcanal_col_values_to_json_value(en_row.after[1])>>)
        /\ "dbValType" \in DOMAIN fields <=>
             (en_meta.manager # "none" /\ en_meta.lookup_ok)
        /\ "jdbcType" \in DOMAIN fields <=>
             (en_meta.manager # "none" /\ en_meta.lookup_ok)

\* C24: the vendor payload of an Insert row has been built by a converter
\* without a meta manager and has neither `before` nor `dbValType`
C24_InsertWithoutMeta ==
  /\ en_pc = "done"
  /\ en_op = "cloudcanal_value"
  /\ en_row.row_type = "Insert"
  /\ en_meta.manager = "none"
  /\ "before" \notin DOMAIN en_out.v.fields
  /\ "dbValType" \notin DOMAIN en_out.v.fields
  /\ "data" \in DOMAIN en_out.v.fields


-----------------------------------------------------------------------------
\* the items of the batch that lines 87-99 put in the bucket of sinker i, in
\* the order of the batch
BucketOf(i) ==
  LET InBucket(item) ==
        \/ item.keys = <<>>
        \/ node_sinker_index_map[slot_node_map[key_slot(item.keys[1])]] = i
  IN SelectSeq(rp_batch, InBucket)

\* sink_raw on a cluster has gone through its loop over the batch
RedisDispatched ==
  DOMAIN slot_node_map # {} /\ rp_pc \in {"spawned", "returned", "panic"}

(* C26: in a sink_raw call on a cluster that has bucketed its batch, one task
   was spawned per sinker; sinker i has received nothing before its task ran
   and one delivery, the items bucketed for i in the order of the batch (none
   for an empty bucket), once it has; and when sink_raw has returned, every
   sinker has received its delivery. *)
C26_OneDeliveryPerSinker ==
  /\ RedisDispatched =>
       \A i \in DOMAIN sinker_ids :
         /\ rp_node_data[i] = BucketOf(i)
         /\ rp_delivered[i] \in {<<>>, <<BucketOf(i)>>}
         /\ rp_pc = "spawned" =>
              /\ rp_tasks[i] \in {"spawned", "done", "panicked"}
              /\ rp_tasks[i] = "done" <=> rp_delivered[i] # <<>>
  /\ RedisClusterCallDone =>
       \A i \in DOMAIN sinker_ids : rp_delivered[i] = <<BucketOf(i)>>

\* a call on a cluster has returned after one sinker received both items of
\* the batch and the other an empty delivery
C26_Witness ==
  /\ RedisClusterCallDone
  /\ \E i, j \in DOMAIN sinker_ids :
       /\ rp_delivered[i] = <<rp_batch>> /\ Len(rp_batch) = 2
       /\ rp_delivered[j] = << <<>> >>


-----------------------------------------------------------------------------
(* C27 as claimed: the batch drain returns is the sequence of the items this
   drain popped from the queue, whatever their kind, in pop order. *)
C27_DrainLosesNothing ==
  pp_pc = "drained" => pp_data = pp_popped

(* C27, what drain does: the batch it returns is the sequence of the rows and
   Commit items this drain popped, in pop order; a popped item of another
   kind is not in the batch. *)
C27_DrainKeepsRowsAndCommits ==
  pp_pc = "drained" =>
    /\ pp_data = SelectSeq(pp_popped, LAMBDA item : item.kind \in {"dml", "commit"})
    /\ \A i \in 1..Len(pp_popped) :
         pp_popped[i].kind \notin {"dml", "commit"} => pp_popped[i] \notin Range(pp_data)

\* drain has popped a Ddl item between a row and a Commit and returned the
\* row and the Commit only
C27_DdlDropped ==
  /\ pp_pc = "drained"
  /\ Len(pp_popped) = 3 /\ Len(pp_data) = 2
  /\ IsDml(pp_popped[1]) /\ pp_popped[2].kind = "ddl" /\ pp_popped[3].kind = "commit"


-----------------------------------------------------------------------------
\* the master that owned slot s in the snapshot
SnapshotOwner(s) == CHOOSE id \in DOMAIN rs_nodes : s \in Range(rs_nodes[id].slots)

\* the slots planned to move to dst, as a set
PlannedFor(dst) == Range(rs_plan[dst])

(* C28: in the plan reshard builds, no slot is planned twice, neither for two
   destinations nor twice for one; every planned slot comes from a master
   that owned more than floor(SLOTS_COUNT / N) slots in the snapshot and goes
   to a master that owned fewer, so never to its own owner; and no destination
   is planned to end with more than floor(SLOTS_COUNT / N) slots. *)
C28_PlanSafety ==
  LET avg == SLOTS_COUNT \div Len(rs_nodes) IN
  \A dst \in DOMAIN rs_plan :
    /\ \A a, b \in DOMAIN rs_plan[dst] : a # b => rs_plan[dst][a] # rs_plan[dst][b]
    /\ \A other \in DOMAIN rs_plan \ {dst} : PlannedFor(dst) \cap PlannedFor(other) = {}
    /\ SnapshotCount(dst) < avg
    /\ \A s \in PlannedFor(dst) :
         /\ SnapshotCount(SnapshotOwner(s)) > avg
         /\ SnapshotOwner(s) # dst
    /\ SnapshotCount(dst) + Len(rs_plan[dst]) <= avg

\* a plan with two destinations, one of which takes two slots and the other
\* one, from a source that keeps more than its share
C28_Witness ==
  /\ rs_pc = "next_dst"
  /\ Cardinality(DOMAIN rs_plan) = 2
  /\ \E dst, other \in DOMAIN rs_plan : Len(rs_plan[dst]) = 2 /\ Len(rs_plan[other]) = 1


-----------------------------------------------------------------------------
(***************************************************************************)
(* ConfigTokenParser                                                       *)
(***************************************************************************)

\* the longest config string tokenized
MaxLen == 4

\* the characters of a config string: a letter, a delimiter, a quote, white
\* space, and the two characters of the regex escape
TkChars == {"a", ".", "\"", " ", "r", "#"}

TkConfigs == UNION {[1..n -> TkChars] : n \in 0..MaxLen}

\* the delimiters of a filter config, and with white space as in a command
TkDelimiters == {<<".">>, <<".", " ">>}

\* no escape pair, or the pair of double quotes
TkEscapePairs == {<<>>, << <<"\"", "\"">> >>}

\* line 7: const REGEX_ESCAPE_PAIR: (&str, char) = ("r#", '#')
REGEX_ESCAPE_PAIR == << <<"r", "#">>, "#" >>

\* str::trim: the token without its leading and trailing white space
trim(token) ==
  LET inner == {i \in 1..Len(token) : token[i] # " "}
  IN IF inner = {} THEN <<>>
     ELSE SubSeq(token, CHOOSE i \in inner : \A j \in inner : i <= j,
                        CHOOSE i \in inner : \A j \in inner : j <= i)

\* lines 80-90; chars[k] of the source is chars[k + 1] here
match_prefix(chars, start_index, prefix) ==
  \A i \in 0..(Len(prefix) - 1) :
    /\ start_index + i < Len(chars)
    /\ chars[start_index + i + 1] = prefix[i + 1]

\* lines 92-110: the characters up to the next delimiter or the end
read_token_to_delimiter(chars, start_index, delimiters) ==
  LET RECURSIVE Loop(_, _, _)
      Loop(k, token, read_count) ==
        IF k >= Len(chars) THEN [token |-> token, read_count |-> read_count]
        ELSE LET c == chars[k + 1] IN
             IF c \in Range(delimiters)
             THEN [token |-> token, read_count |-> read_count]
             ELSE Loop(k + 1, Append(token, c), read_count + 1)
      res == Loop(start_index, <<>>, 0)
  IN [panic |-> FALSE, token |-> res.token, next_index |-> start_index + res.read_count]

\* lines 112-140: the characters from the left escape through the next right
\* escape, or to the end
read_token_with_escape(chars, start_index, escape_pair) ==
  LET RECURSIVE Loop(_, _, _, _)
      Loop(k, start, token, read_count) ==
        IF k >= Len(chars) THEN [token |-> token, read_count |-> read_count]
        ELSE LET c == chars[k + 1] IN
             IF start /\ c = escape_pair[2]
             THEN [token |-> Append(token, c), read_count |-> read_count + 1]
             ELSE LET started == start \/ c = escape_pair[1] IN
                  IF started THEN Loop(k + 1, TRUE, Append(token, c), read_count + 1)
                  ELSE Loop(k + 1, FALSE, token, read_count)
      res == Loop(start_index, FALSE, <<>>, 0)
  IN [panic |-> FALSE, token |-> res.token, next_index |-> start_index + res.read_count]

\* lines 142-156: the characters through the first '#' after the prefix, or
\* to the end
read_token_with_regex_escape(chars, start_index) ==
  LET prefix_len == Len(REGEX_ESCAPE_PAIR[1])
      RECURSIVE Loop(_, _, _)
      Loop(k, token, read_count) ==
        IF k >= Len(chars) THEN [token |-> token, read_count |-> read_count]
        ELSE LET c == chars[k + 1] IN
             IF read_count + 1 > prefix_len /\ c = REGEX_ESCAPE_PAIR[2]
             THEN [token |-> Append(token, c), read_count |-> read_count + 1]
             ELSE Loop(k + 1, Append(token, c), read_count + 1)
      res == Loop(start_index, <<>>, 0)
  IN [panic |-> FALSE, token |-> res.token, next_index |-> start_index + res.read_count]

\* lines 59-78: for every escape pair, the token in escapes when the first
\* character is the pair's left escape, else the regex token when the
\* characters start with "r#"; the plain token when no pair gave one.
\* chars[start_index] of line 67 panics when start_index is the length.
read_token(chars, start_index, delimiters, escape_pairs) ==
  LET RECURSIVE Loop(_)
      Loop(pairs) ==
        IF pairs = <<>> THEN read_token_to_delimiter(chars, start_index, delimiters)
        ELSE IF start_index >= Len(chars)
        THEN [panic |-> TRUE, token |-> <<>>, next_index |-> start_index]
        ELSE IF chars[start_index + 1] = Head(pairs)[1]
        THEN read_token_with_escape(chars, start_index, Head(pairs))
        ELSE IF match_prefix(chars, start_index, REGEX_ESCAPE_PAIR[1])
        THEN read_token_with_regex_escape(chars, start_index)
        ELSE Loop(Tail(pairs))
  IN Loop(escape_pairs)

\* lines 35-41: parse is called; an empty string gives no token
TokParse ==
  /\ tk_pc = "start"
  /\ tk_start' = 0
  /\ tk_tokens' = <<>>
  /\ tk_pc' = IF tk_chars = <<>> THEN "done" ELSE "loop"
  /\ UNCHANGED <<tk_chars, tk_delimiters, tk_escape_pairs, tk_reads>>

\* lines 43-54: one iteration of the loop: read a token, push it trimmed, and
\* end at the end of chars or go on after the character at next_index
TokLoop ==
  /\ tk_pc = "loop"
  /\ LET res == read_token(tk_chars, tk_start, tk_delimiters, tk_escape_pairs) IN
       IF res.panic
       THEN /\ tk_pc' = "panic"
            /\ UNCHANGED <<tk_start, tk_tokens, tk_reads>>
       ELSE /\ tk_tokens' = Append(tk_tokens, trim(res.token))
            /\ tk_reads' = Append(tk_reads, [from |-> tk_start, token |-> res.token,
                                             next_index |-> res.next_index])
            /\ IF res.next_index >= Len(tk_chars)
               THEN tk_pc' = "done" /\ tk_start' = tk_start
               ELSE tk_pc' = "loop" /\ tk_start' = res.next_index + 1
  /\ UNCHANGED <<tk_chars, tk_delimiters, tk_escape_pairs>>

TokInit ==
  /\ tk_pc = "start"
  /\ tk_chars \in TkConfigs
  /\ tk_delimiters \in TkDelimiters
  /\ tk_escape_pairs \in TkEscapePairs
  /\ tk_start = 0
  /\ tk_tokens = <<>>
  /\ tk_reads = <<>>

TokNext ==
  \/ TokParse /\ TokFrame
  \/ TokLoop /\ TokFrame


-----------------------------------------------------------------------------
\* the 0-based position of the first character c of chars at or after k, or
\* the length of chars when there is none
FirstAt(chars, k, c) ==
  LET found == {j \in k..(Len(chars) - 1) : chars[j + 1] = c}
  IN IF found = {} THEN Len(chars) ELSE CHOOSE j \in found : \A i \in found : j <= i

\* the character parse skipped after its i-th token
Skipped(i) == tk_chars[tk_reads[i].next_index + 1]

\* the i-th token was read as a token in escapes or as a regex token
ReadWithEscapes(i) ==
  /\ tk_escape_pairs # <<>>
  /\ \/ tk_chars[tk_reads[i].from + 1] = tk_escape_pairs[1][1]
     \/ match_prefix(tk_chars, tk_reads[i].from, REGEX_ESCAPE_PAIR[1])

(* C29 as claimed: parse never reads a position at or past the end of its
   input. *)
C29_ParseNeverReadsPastEnd ==
  tk_pc # "panic"

(* C29, what parse does: every iteration of its loop starts within the input
   or at its end and further than the iteration before, so the loop ends;
   parse reads past the end, and panics, only with an escape pair, when the
   character skipped after a token was the last of the input; a token that
   runs to the end of the input, in unterminated escapes or not, ends the
   loop. *)
C29_ParsePanicsAfterLastCharacterSkipped ==
  /\ tk_pc = "loop" => Len(tk_tokens) <= tk_start /\ tk_start <= Len(tk_chars)
  /\ \A i \in 1..(Len(tk_reads) - 1) : tk_reads[i].next_index < tk_reads[i + 1].from
  /\ tk_pc = "panic" =>
       /\ tk_escape_pairs # <<>>
       /\ tk_start = Len(tk_chars)
       /\ tk_reads # <<>> /\ Last(tk_reads).next_index = Len(tk_chars) - 1
  /\ tk_pc = "done" /\ tk_reads # <<>> =>
       /\ Last(tk_reads).next_index = Len(tk_chars)
       /\ Last(tk_reads).from = Len(tk_chars) => tk_escape_pairs = <<>>

\* parse has panicked on a config that ends with a delimiter
C29_TrailingDelimiterPanics ==
  /\ tk_pc = "panic"
  /\ tk_chars = <<"a", ".">>
  /\ tk_tokens = << <<"a">> >>

-----------------------------------------------------------------------------
\* the tokens as read and the characters skipped between them, joined
Rejoined ==
  LET RECURSIVE Join(_)
      Join(i) ==
        IF i > Len(tk_reads) THEN <<>>
        ELSE tk_reads[i].token
               \o (IF i < Len(tk_reads) THEN <<Skipped(i)>> ELSE <<>>)
               \o Join(i + 1)
  IN Join(1)

\* raw is token with white space before and after it
Padded(token, raw) ==
  \E l, t \in 0..Len(raw) :
    raw = [i \in 1..l |-> " "] \o token \o [i \in 1..t |-> " "]

(* C22 as claimed: when parse has returned, the tokens, each with the white
   space trimmed from it, joined by the characters skipped between them, are
   the input, and every character skipped is a delimiter. *)
C22_RoundTripDropsDelimitersOnly ==
  tk_pc = "done" =>
    /\ Rejoined = tk_chars
    /\ \A i \in DOMAIN tk_tokens : Padded(tk_tokens[i], tk_reads[i].token)
    /\ \A i \in 1..(Len(tk_reads) - 1) : Skipped(i) \in Range(tk_delimiters)

(* C22, what parse does: when parse has returned, the tokens, each with the
   white space trimmed from it, joined by the characters skipped between
   them, are the input; the character skipped after a plain token is a
   delimiter, the one skipped after a token in escapes or a regex token is
   whatever character follows it. *)
C22_RoundTripDropsOneCharacterPerBoundary ==
  tk_pc = "done" =>
    /\ Rejoined = tk_chars
    /\ \A i \in DOMAIN tk_tokens : Padded(tk_tokens[i], tk_reads[i].token)
    /\ \A i \in 1..(Len(tk_reads) - 1) :
         Skipped(i) \in Range(tk_delimiters) \/ ReadWithEscapes(i)

\* parse has returned the empty quoted token and a letter for a config with
\* two letters after the quotes: the first letter is dropped
C22_LetterAfterQuoteDropped ==
  /\ tk_pc = "done"
  /\ tk_chars = <<"\"", "\"", "a", "a">>
  /\ tk_tokens = << <<"\"", "\"">>, <<"a">> >>

-----------------------------------------------------------------------------
\* the quoted sections and regex escapes of the input, read from left to
\* right: from a left escape to the next right escape, from "r#" to the next
\* '#'; [b, e] are the 0-based positions of the first and last character
Sections ==
  LET lefts == {tk_escape_pairs[n][1] : n \in DOMAIN tk_escape_pairs}
      RightOf(c) == (CHOOSE n \in DOMAIN tk_escape_pairs : tk_escape_pairs[n][1] = c)
      RECURSIVE Scan(_)
      Scan(k) ==
        IF k >= Len(tk_chars) THEN {}
        ELSE LET c == tk_chars[k + 1]
                 e == IF c \in lefts
                      THEN FirstAt(tk_chars, k + 1, tk_escape_pairs[RightOf(c)][2])
                      ELSE IF match_prefix(tk_chars, k, REGEX_ESCAPE_PAIR[1])
                      THEN FirstAt(tk_chars, k + Len(REGEX_ESCAPE_PAIR[1]), REGEX_ESCAPE_PAIR[2])
                      ELSE Len(tk_chars)
             IN IF e < Len(tk_chars) THEN {[b |-> k, e |-> e]} \cup Scan(e + 1)
                ELSE Scan(k + 1)
  IN Scan(0)

(* C21 as claimed: when parse has returned, every quoted section and every
   regex escape of the input lies within one token, whatever delimiters it
   holds, and the token has the section with its escapes. *)
C21_SectionsNeverSplit ==
  tk_pc = "done" =>
    \A sec \in Sections :
      \E i \in DOMAIN tk_reads :
        /\ tk_reads[i].from <= sec.b /\ sec.e < tk_reads[i].next_index
        /\ \E l, t \in 0..Len(tk_tokens[i]) :
             SubSeq(tk_tokens[i], l + 1, Len(tk_tokens[i]) - t)
               = SubSeq(tk_chars, sec.b + 1, sec.e + 1)

(* C21, what read_token does: given at least one escape pair, a token that
   starts with the left escape is the input from there through the next
   right escape, and a token that starts with "r#" is the input from there
   through the next '#', whatever delimiters lie between, and is returned
   with its escapes; a token that starts otherwise ends before the next
   delimiter, inside a quoted section or not; and without an escape pair
   every token ends before the next delimiter. *)
C21_OpaqueOnlyAtTokenStart ==
  \A i \in DOMAIN tk_reads :
    LET from == tk_reads[i].from
        next_index == tk_reads[i].next_index
        e == IF tk_escape_pairs = <<>> THEN Len(tk_chars)
             ELSE IF tk_chars[from + 1] = tk_escape_pairs[1][1]
             THEN FirstAt(tk_chars, from + 1, tk_escape_pairs[1][2])
             ELSE IF match_prefix(tk_chars, from, REGEX_ESCAPE_PAIR[1])
             THEN FirstAt(tk_chars, from + Len(REGEX_ESCAPE_PAIR[1]), REGEX_ESCAPE_PAIR[2])
             ELSE Len(tk_chars)
    IN /\ tk_reads[i].token = SubSeq(tk_chars, from + 1, next_index)
       /\ IF ReadWithEscapes(i)
          THEN /\ next_index = Min(e + 1, Len(tk_chars))
               /\ e < Len(tk_chars) => tk_tokens[i] = SubSeq(tk_chars, from + 1, e + 1)
          ELSE \E d \in Range(tk_delimiters) :
                 /\ next_index = FirstAt(tk_chars, from, d)
                 /\ \A c \in Range(tk_delimiters) : next_index <= FirstAt(tk_chars, from, c)

\* parse has split the quoted section of a config that starts with white
\* space at the delimiter inside the quotes
C21_QuoteAfterSpaceSplit ==
  /\ tk_pc = "done"
  /\ tk_chars = <<" ", "\"", ".", "\"">>
  /\ tk_delimiters = <<".">>
  /\ tk_escape_pairs # <<>>
  /\ tk_tokens = << <<"\"">>, <<"\"">> >>


-----------------------------------------------------------------------------
(***************************************************************************)
(* load_config_string (configuration source)                               *)
(***************************************************************************)

\* at most MaxLoads calls of load_config_string in a run
MaxLoads == 3
\* the system clock reads 0..MaxNow, in seconds
MaxNow == 2
\* NACOS_CACHE_TTL_SECS is 0..MaxTtl
MaxTtl == 1

\* an ini text: whether Ini::read accepts it, and the names of its sections
\* in the order of the text
CsSectionLists ==
  {<<>>, <<"extractor">>, <<"sinker", "extractor">>, <<"extractor", "custom">>}

CsContents ==
  [valid : {TRUE}, sections : CsSectionLists] \cup {[valid |-> FALSE, sections |-> <<>>]}

\* what fetch_nacos or fs::read_to_string gives: Ok(content) or Err
CsReads ==
  [ok : {TRUE}, v : CsContents] \cup {[ok |-> FALSE, v |-> "fetch error"]}

\* lines 140-143
allow_sections ==
  <<"extractor", "sinker", "pipeline", "parallelizer", "runtime", "filter", "router",
    "resumer", "data_marker", "processor", "meta_center", "metrics", "precheck">>

\* lines 136-157: Err when the text is no ini, else the allowed sections of
\* the text in the order of allow_sections
filter_config_sections(content) ==
  IF ~content.valid THEN [ok |-> FALSE, v |-> "ini error"]
  ELSE [ok |-> TRUE,
        v |-> [valid |-> TRUE,
               sections |-> SelectSeq(allow_sections,
                                      LAMBDA s : s \in Range(content.sections))]]

\* lines 111-125: None without a file (line 114) and when the file's
\* modification time is later than now (line 116, duration_since is Err);
\* else the content, within the ttl or not
load_cache(cache, now, ttl) ==
  IF cache = None THEN None
  ELSE IF now < cache[1].modified THEN None
  ELSE IF now - cache[1].modified <= ttl THEN Some(cache[1].content)
  ELSE Some(cache[1].content)

\* lines 127-134: the file is created anew with the content
save_cache(content, now) == Some([content |-> content, modified |-> now])

\* lines 161-166: the local file is read and returned as it is
CfgLoadLocal(read) ==
  /\ cs_pc = "ready"
  /\ cs_source = "Local"
  /\ cs_loads < MaxLoads
  /\ cs_loads' = cs_loads + 1
  /\ cs_result' = read
  /\ cs_last' = [source |-> "Local", fetch |-> read, cached |-> None, before |-> cs_cache,
                 now |-> 0]
  /\ UNCHANGED <<cs_pc, cs_source, cs_cache, cs_rejected>>

\* lines 167-195: load the cache, fetch, save what was fetched (lines 176 and
\* 191, before it is filtered), and return
\* the filtered fetched content, the filtered cached content when the fetch
\* failed, or the error of the fetch without a cache
CfgLoadNacos(fetch, now, ttl) ==
  /\ cs_pc = "ready"
  /\ cs_source = "Nacos"
  /\ cs_loads < MaxLoads
  /\ cs_loads' = cs_loads + 1
  /\ LET cached == load_cache(cs_cache, now, ttl) IN
       /\ cs_last' = [source |-> "Nacos", fetch |-> fetch, cached |-> cached,
                      before |-> cs_cache, now |-> now]
       /\ IF fetch.ok
          THEN /\ cs_cache' = save_cache(fetch.v, now)
               /\ cs_result' = filter_config_sections(fetch.v)
               /\ cs_rejected' = IF filter_config_sections(fetch.v).ok THEN cs_rejected
                                 ELSE cs_rejected \cup {fetch.v}
          ELSE /\ cs_result' = IF cached # None THEN filter_config_sections(cached[1])
                               ELSE fetch
               /\ UNCHANGED <<cs_cache, cs_rejected>>
  /\ UNCHANGED <<cs_pc, cs_source>>

CfgInit ==
  /\ cs_pc = "ready"
  /\ cs_source \in {"Local", "Nacos"}
  /\ cs_cache = None
  /\ cs_loads = 0
  /\ cs_result = <<>>
  /\ cs_last = <<>>
  /\ cs_rejected = {}

CfgNext ==
  \/ \E read \in CsReads : CfgLoadLocal(read) /\ CfgFrame
  \/ \E fetch \in CsReads, now \in 0..MaxNow, ttl \in 0..MaxTtl :
       CfgLoadNacos(fetch, now, ttl) /\ CfgFrame

-----------------------------------------------------------------------------
\* the last call was a load from Nacos
LoadedNacos == cs_last # <<>> /\ cs_last.source = "Nacos"

\* the last call was a load from Nacos whose fetch failed
FetchFailed == LoadedNacos /\ ~cs_last.fetch.ok

(* C25 as claimed: after a load from Nacos, if the fetch succeeded the cache
   file holds the fetched content and the result is that of the fetched
   content; if the fetch failed and there was a cache file, of whatever age,
   the result is that of the cached content; if the fetch failed and there
   was no cache file, the result is the error of the fetch. *)
C25_FetchThenCacheThenError ==
  LoadedNacos =>
    /\ cs_last.fetch.ok =>
         /\ cs_cache # None /\ cs_cache[1].content = cs_last.fetch.v
         /\ cs_result = filter_config_sections(cs_last.fetch.v)
    /\ (FetchFailed /\ cs_last.before # None) =>
         cs_result = filter_config_sections(cs_last.before[1].content)
    /\ (FetchFailed /\ cs_last.before = None) => cs_result = cs_last.fetch

(* C25, what load_config_string does: if the fetch succeeded the cache file
   holds the fetched content and the result is that of the fetched content;
   if the fetch failed and there was a cache file not modified later than
   now, the result is that of the cached content, within the ttl or not; if
   the fetch failed and there was no cache file, or one modified later than
   now, the result is the error of the fetch; a failed fetch leaves the cache
   file as it was. *)
C25_CacheOfTheFutureIgnored ==
  LoadedNacos =>
    /\ cs_last.fetch.ok =>
         /\ cs_cache = Some([content |-> cs_last.fetch.v, modified |-> cs_last.now])
         /\ cs_result = filter_config_sections(cs_last.fetch.v)
    /\ (FetchFailed /\ cs_last.before # None /\ cs_last.before[1].modified <= cs_last.now) =>
         /\ cs_result = filter_config_sections(cs_last.before[1].content)
         /\ cs_cache = cs_last.before
    /\ (FetchFailed /\ cs_last.before # None /\ cs_last.before[1].modified > cs_last.now) =>
         /\ cs_result = cs_last.fetch
         /\ cs_cache = cs_last.before
    /\ (FetchFailed /\ cs_last.before = None) =>
         /\ cs_result = cs_last.fetch
         /\ cs_cache = None

\* the fetch failed, the cache file holds a valid config saved at a time the
\* clock has since fallen behind, and the load returned the fetch error
C25_CacheExistsFetchErrorReturned ==
  /\ FetchFailed
  /\ cs_last.before # None /\ cs_last.before[1].content.valid
  /\ cs_last.before[1].modified > cs_last.now
  /\ cs_result = cs_last.fetch

(* C30 as claimed: the cache file never holds content that section filtering
   rejects, and a load that falls back to the cache never fails. *)
C30_CacheHoldsAcceptedContent ==
  /\ cs_cache # None => filter_config_sections(cs_cache[1].content).ok
  /\ (FetchFailed /\ cs_last.cached # None) => cs_result.ok

(* C30, what load_config_string does: the cache file holds a content that was
   fetched, accepted by section filtering or not; a load that falls back to
   the cache fails when section filtering rejects the cached content, and
   that content was rejected when it was fetched. *)
C30_CacheHoldsFetchedContent ==
  /\ cs_cache # None =>
       filter_config_sections(cs_cache[1].content).ok <=> cs_cache[1].content \notin cs_rejected
  /\ (FetchFailed /\ cs_last.cached # None) =>
       /\ cs_result.ok <=> filter_config_sections(cs_last.cached[1]).ok
       /\ ~cs_result.ok => cs_last.cached[1] \in cs_rejected

\* a load has fallen back to cached content that was rejected when it was
\* fetched, and has failed on it
C30_FallbackFailsOnRejectedContent ==
  /\ FetchFailed
  /\ cs_last.cached # None /\ cs_last.cached[1] \in cs_rejected
  /\ ~cs_result.ok /\ cs_result.v = "ini error"

-----------------------------------------------------------------------------
(* Specifications: one per component, the other components idle *)

PartIdle ==
  /\ buffer = <<>> /\ pushed = 0 /\ parallel_size = 1 /\ pp_pc = "off"
  /\ pp_data = <<>> /\ pp_popped = <<>> /\ pp_input = <<>> /\ pp_sinks = <<<<>>>>

RedisIdle ==
  /\ slot_node_map = <<>> /\ node_sinker_index_map = <<>> /\ sinker_ids = <<1>>
  /\ rp_pc = "off" /\ rp_calls = 0 /\ rp_batch = <<>> /\ rp_err = "none"
  /\ rp_node_data = <<<<>>>> /\ rp_tasks = <<"none">> /\ rp_delivered = <<<<>>>>
  /\ rp_key_sinks = [k \in RedisKeys |-> {}]

ReshardIdle ==
  /\ rs_nodes = <<>> /\ rs_owner = <<>> /\ rs_pc = "off" /\ rs_plan = <<>>
  /\ rs_todo = {} /\ rs_dst = 0 /\ rs_rest = <<>> /\ rs_slot = 0 /\ rs_src = 0
  /\ rs_cur_src = 0 /\ rs_keys = 0 /\ rs_cmds = <<>> /\ rs_moved = <<>>
  /\ rs_failed = FALSE /\ rs_after_fail = 0

SrIdle ==
  /\ sr_db_type = "StarRocks" /\ sr_hard_delete = FALSE /\ sr_meta_has_sign = FALSE
  /\ sync_timestamp = 0 /\ sr_rows = <<>> /\ sr_result = "off"
  /\ sr_request = <<>> /\ sr_response = <<>> /\ sr_stamps = <<>>
  /\ sr_batch_size = 1 /\ sr_data = <<>> /\ sr_batch = FALSE /\ sr_next = 1
  /\ sr_sent = <<>> /\ sr_ret = "off"

KafkaIdle ==
  /\ message_format = [kind |-> "Avro", template |-> ""]
  /\ kf_meta = [manager |-> "none", lookup_ok |-> FALSE, has_pk |-> FALSE]
  /\ kf_pc = "off" /\ kf_data = <<>> /\ kf_futures = <<>> /\ kf_polled = 0
  /\ kf_published = <<>> /\ kf_results = <<>> /\ kf_ret = "none"

DdlIdle ==
  /\ dd_pc = "off" /\ dd_stmt = [kind |-> "Unknown"] /\ dd_prev = [kind |-> "Unknown"]
  /\ dd_via = "none" /\ dd_dst = <<>> /\ dd_op = "none" /\ dd_db_type = "Mysql"
  /\ dd_split = <<>> /\ dd_sql = <<>>

EncIdle ==
  /\ en_pc = "off" /\ en_row = <<>> /\ en_op = "none" /\ en_out = <<>>
  /\ en_meta = [manager |-> "none", lookup_ok |-> FALSE, has_pk |-> FALSE]

TokIdle ==
  /\ tk_pc = "off"
  /\ tk_chars = <<>>
  /\ tk_delimiters = <<>>
  /\ tk_escape_pairs = <<>>
  /\ tk_start = 0
  /\ tk_tokens = <<>>
  /\ tk_reads = <<>>

CfgIdle ==
  /\ cs_pc = "off"
  /\ cs_source = "Local"
  /\ cs_cache = <<>>
  /\ cs_loads = 0
  /\ cs_result = <<>>
  /\ cs_last = <<>>
  /\ cs_rejected = {}

InitPartition ==
  /\ PartInit
  /\ RedisIdle
  /\ ReshardIdle
  /\ SrIdle
  /\ KafkaIdle
  /\ DdlIdle
  /\ EncIdle
  /\ TokIdle
  /\ CfgIdle

InitRedis ==
  /\ RedisInit
  /\ PartIdle
  /\ ReshardIdle
  /\ SrIdle
  /\ KafkaIdle
  /\ DdlIdle
  /\ EncIdle
  /\ TokIdle
  /\ CfgIdle

InitReshard ==
  /\ ReshardInit
  /\ PartIdle
  /\ RedisIdle
  /\ SrIdle
  /\ KafkaIdle
  /\ DdlIdle
  /\ EncIdle
  /\ TokIdle
  /\ CfgIdle

InitStarRocks ==
  /\ SrInit
  /\ PartIdle
  /\ RedisIdle
  /\ ReshardIdle
  /\ KafkaIdle
  /\ DdlIdle
  /\ EncIdle
  /\ TokIdle
  /\ CfgIdle

InitKafka ==
  /\ KafkaInit
  /\ PartIdle
  /\ RedisIdle
  /\ ReshardIdle
  /\ SrIdle
  /\ DdlIdle
  /\ EncIdle
  /\ TokIdle
  /\ CfgIdle

InitDdl ==
  /\ DdlInit
  /\ PartIdle
  /\ RedisIdle
  /\ ReshardIdle
  /\ SrIdle
  /\ KafkaIdle
  /\ EncIdle
  /\ TokIdle
  /\ CfgIdle

InitEncoder ==
  /\ EncInit
  /\ PartIdle
  /\ RedisIdle
  /\ ReshardIdle
  /\ SrIdle
  /\ KafkaIdle
  /\ DdlIdle
  /\ TokIdle
  /\ CfgIdle

InitTokenizer ==
  /\ TokInit
  /\ PartIdle
  /\ RedisIdle
  /\ ReshardIdle
  /\ SrIdle
  /\ KafkaIdle
  /\ DdlIdle
  /\ EncIdle
  /\ CfgIdle

InitConfigSource ==
  /\ CfgInit
  /\ PartIdle
  /\ RedisIdle
  /\ ReshardIdle
  /\ SrIdle
  /\ KafkaIdle
  /\ DdlIdle
  /\ EncIdle
  /\ TokIdle

SpecPartition == InitPartition /\ [][PartNext]_vars

SpecRedis == InitRedis /\ [][RedisNext]_vars

SpecReshard == InitReshard /\ [][ReshardNext]_vars

SpecStarRocks == InitStarRocks /\ [][SrNext]_vars

SpecKafka == InitKafka /\ [][KafkaNext]_vars

SpecDdl == InitDdl /\ [][DdlNext]_vars

SpecEncoder == InitEncoder /\ [][EncNext]_vars

SpecTokenizer == InitTokenizer /\ [][TokNext]_vars

SpecConfigSource == InitConfigSource /\ [][CfgNext]_vars

Init ==
  \/ InitPartition
  \/ InitRedis
  \/ InitReshard
  \/ InitStarRocks
  \/ InitKafka
  \/ InitDdl
  \/ InitEncoder
  \/ InitTokenizer
  \/ InitConfigSource

Next ==
  \/ PartNext
  \/ RedisNext
  \/ ReshardNext
  \/ SrNext
  \/ KafkaNext
  \/ DdlNext
  \/ EncNext
  \/ TokNext
  \/ CfgNext

Spec == Init /\ [][Next]_vars
====
